---------------------------- MODULE Spec2Model ----------------------------
(***************************************************************************)
(* Overlap detection and merge-group consolidation of paper2skills:       *)
(* src/paper2skills/evaluate/merger.py, the parsing of merged skills in    *)
(* src/paper2skills/generate/generator.py and the auto-merge loop of the   *)
(* merge command in src/paper2skills/cli.py.                               *)
(*                                                                         *)
(* Strings are sequences of character codes, so that Python's ordering of  *)
(* str (lexicographic by code point) is LexLess below: <<97, 98>> reads    *)
(* "ab", <<44, 32>> reads ", ".                                            *)
(***************************************************************************)
EXTENDS Integers, Sequences, FiniteSets, TLC

VARIABLES
    gpc,        \* group builder: "input" before the call, "done" after
    pairs,      \* group builder: the list of OverlapPair handed to it
    groups,     \* group builder: the list of groups it returned
    jpc,        \* judge: "ready", "parse" (the chat response is in), "done"
    response,   \* judge: response.content of the chat call, a token list
    jresult,    \* judge: "none", "returned" or the exception raised
    jreport,    \* judge: the MergeReport returned (pairs, merge_groups)
    mpc,        \* merge_skills: "ready", "parse" (the response is in), "done"
    skill_a,    \* merge_skills: its first argument
    skill_b,    \* merge_skills: its second argument
    mresponse,  \* merge_skills: response.content, a list of skill blocks
    mresult,    \* merge_skills: what it returned, a skill or None
    apc,        \* auto-merge: "read", "detect", "group", "merge", "write", "done", "raised"
    store,      \* auto-merge: the skills directory, directory name -> SKILL.md
    askills,    \* auto-merge: skills, as read_existing_skills returned them
    agroups,    \* auto-merge: report.merge_groups
    gi,         \* auto-merge: the place of the current group in agroups
    group_skills, \* auto-merge: the resolved members of the current group
    aresult,    \* auto-merge: result, the accumulator (<<>> outside a group)
    oi,         \* auto-merge: the place of the next `other` in group_skills
    acalls,     \* auto-merge: log of the merge_skills calls
    aops,       \* auto-merge: log of the writes and removals in the directory
    ipc,        \* merge_into_existing: "call", "loop", "returned", "raised"
    existing_skills, \* merge_into_existing: its argument
    new_skills, \* merge_into_existing: its argument
    ireport,    \* merge_into_existing: report.pairs
    ii,         \* merge_into_existing: the place of the next pair in ireport
    merged_results,   \* merge_into_existing: the merged skills so far
    merged_new_names, \* merge_into_existing: the new names merged so far
    novel_skills,     \* merge_into_existing: the novel list it returned
    icalls,     \* merge_into_existing: log of the merge_skills calls
    ichats,     \* merge_into_existing: number of provider calls made
    iexc,       \* merge_into_existing: the exception that left it, or "none"
    ifail,      \* merge_into_existing: the provider call that failed (0: none)
    dpc,        \* detect_overlaps: "call", "embedded", "parse", "returned", "shown", "raised"
    dskills,    \* detect_overlaps: its argument skills
    dthreshold, \* detect_overlaps: its argument threshold, in hundredths
    drequests,  \* detect_overlaps: log of the requests made to the provider
    dembed,     \* detect_overlaps: what get_embeddings gave
    dcontent,   \* detect_overlaps: response.content of the chat call
    dresult,    \* detect_overlaps: "none", "returned" or the exception raised
    dreport,    \* detect_overlaps: the MergeReport returned
    dshown,     \* the report as print_summary and to_markdown show it
    rpc,        \* repeated builder calls: "other", "first", "again", "done"
    rpairs,     \* repeated builder calls: the pair list of both calls
    rinput,     \* repeated builder calls: that list as it was at the start
    rother,     \* repeated builder calls: the pair list of an earlier call
    rparent,    \* repeated builder calls: the parent dict of the latest call
    rruns,      \* repeated builder calls: the results returned for rpairs
    cpc,        \* _cosine_similarity: "idle", "call" or "done"
    cvec_a,     \* _cosine_similarity: its argument a
    cvec_b,     \* _cosine_similarity: its argument b
    cresult,    \* _cosine_similarity: the value returned or the exception
    ppc,        \* CopilotProvider.chat: "idle", "ensure", "loop" or "done"
    ptoken,     \* CopilotProvider: a session token is held and has not expired
    pattempt,   \* CopilotProvider.chat: attempt, the loop variable
    plog,       \* CopilotProvider.chat: log of the HTTP requests of the call
    presult     \* CopilotProvider.chat: "none", "response" or the exception

groupVars == <<gpc, pairs, groups>>
judgeVars == <<jpc, response, jresult, jreport>>
mergeVars == <<mpc, skill_a, skill_b, mresponse, mresult>>
autoVars == <<apc, store, askills, agroups, gi, group_skills, aresult, oi,
              acalls, aops>>
intoVars == <<ipc, existing_skills, new_skills, ireport, ii, merged_results,
              merged_new_names, novel_skills, icalls, ichats, iexc, ifail>>
detectVars == <<dpc, dskills, dthreshold, drequests, dembed, dcontent,
                dresult, dreport, dshown>>
rerunVars == <<rpc, rpairs, rinput, rother, rparent, rruns>>
cosineVars == <<cpc, cvec_a, cvec_b, cresult>>
copilotVars == <<ppc, ptoken, pattempt, plog, presult>>
vars == <<gpc, pairs, groups, jpc, response, jresult, jreport,
          mpc, skill_a, skill_b, mresponse, mresult,
          apc, store, askills, agroups, gi, group_skills, aresult, oi,
          acalls, aops,
          ipc, existing_skills, new_skills, ireport, ii, merged_results,
          merged_new_names, novel_skills, icalls, ichats, iexc, ifail,
          dpc, dskills, dthreshold, drequests, dembed, dcontent, dresult,
          dreport, dshown,
          rpc, rpairs, rinput, rother, rparent, rruns,
          cpc, cvec_a, cvec_b, cresult,
          ppc, ptoken, pattempt, plog, presult>>

---------------------------------------------------------------------------
(* Generic helpers: Python's list and str operations.                      *)

Range(s) == {s[i] : i \in 1..Len(s)}

\* x in list
InSeq(x, s) == \E i \in 1..Len(s) : s[i] = x

\* Python's str ordering: lexicographic by code point, a proper prefix first.
RECURSIVE LexLess(_, _)
LexLess(s, t) ==
    IF t = <<>> THEN FALSE
    ELSE IF s = <<>> THEN TRUE
    ELSE IF Head(s) < Head(t) THEN TRUE
    ELSE IF Head(s) > Head(t) THEN FALSE
    ELSE LexLess(Tail(s), Tail(t))

\* Insert x into the ascending list s, after the elements not greater than
\* it (sorted() is stable).
RECURSIVE InsertSorted(_, _)
InsertSorted(x, s) ==
    IF s = <<>> THEN <<x>>
    ELSE IF LexLess(x, Head(s)) THEN <<x>> \o s
    ELSE <<Head(s)>> \o InsertSorted(x, Tail(s))

\* sorted(list of str)
RECURSIVE sorted(_)
sorted(s) ==
    IF s = <<>> THEN <<>>
    ELSE InsertSorted(s[Len(s)], sorted(SubSeq(s, 1, Len(s) - 1)))

---------------------------------------------------------------------------
(* OverlapPair and the inputs of the group builder.                        *)

\* Skill names: "a", "ab", "b", "c".
Names == {<<97>>, <<97, 98>>, <<98>>, <<99>>}

\* overlap_score, in hundredths.
Scores == {20, 99}

MaxPairs == 3

\* reason and suggested_name are free text
Reasons == {"r", "r2"}
SuggestedNames == {"None", "n"}

OverlapPair ==
    [skill_a : Names, skill_b : Names, overlap_score : Scores,
     should_merge : BOOLEAN, reason : Reasons, suggested_name : SuggestedNames]

\* The pair lists the builder is run on: every name pair, flag and score;
\* the two free-text fields, which no code below reads, take one value here
\* and every value in the formulas that vary them.
PairInputs ==
    [skill_a : Names, skill_b : Names, overlap_score : Scores,
     should_merge : BOOLEAN, reason : {"r"}, suggested_name : {"None"}]

PairLists == UNION {[1..n -> PairInputs] : n \in 0..MaxPairs}

---------------------------------------------------------------------------
(* _build_merge_groups: union-find over a dict.  A dict is a record of its *)
(* keys in insertion order and its values.                                 *)

EmptyDict == [keys |-> <<>>, val |-> <<>>]

HasKey(d, k) == InSeq(k, d.keys)

\* d[k] = v
DictSet(d, k, v) ==
    IF HasKey(d, k)
    THEN [d EXCEPT !.val = [x \in DOMAIN d.val |-> IF x = k THEN v ELSE d.val[x]]]
    ELSE [keys |-> Append(d.keys, k), val |-> (k :> v) @@ d.val]

\* the while loop of find(): path halving up to the root
RECURSIVE FindLoop(_, _)
FindLoop(parent, x) ==
    IF parent.val[x] = x
    THEN [root |-> x, parent |-> parent]
    ELSE LET p2 == DictSet(parent, x, parent.val[parent.val[x]])
         IN  FindLoop(p2, p2.val[x])

find(parent, x) ==
    FindLoop(IF HasKey(parent, x) THEN parent ELSE DictSet(parent, x, x), x)

\* mutant of union: links the two names themselves, not their roots
unionNoFind(parent, x, y) ==
    LET p1 == IF HasKey(parent, x) THEN parent ELSE DictSet(parent, x, x)
        p2 == IF HasKey(p1, y) THEN p1 ELSE DictSet(p1, y, y)
    IN  IF x # y THEN DictSet(p2, x, y) ELSE p2

union(parent, x, y) ==
    LET fx == find(parent, x)
        fy == find(fx.parent, y)
    IN  IF fx.root # fy.root
        THEN DictSet(fy.parent, fx.root, fy.root)
        ELSE fy.parent

\* mutant of merge_pairs: keeps the pairs whose score reaches the threshold
merge_pairsByScore(ps) == SelectSeq(ps, LAMBDA p : p.overlap_score >= 70)

\* merge_pairs = [p for p in pairs if p.should_merge]
merge_pairs(ps) == SelectSeq(ps, LAMBDA p : p.should_merge)

\* for pair in merge_pairs: union(pair.skill_a, pair.skill_b)
RECURSIVE UnionAll(_, _)
UnionAll(parent, mps) ==
    IF mps = <<>> THEN parent
    ELSE UnionAll(union(parent, Head(mps).skill_a, Head(mps).skill_b), Tail(mps))

\* for name in parent: groups.setdefault(find(name), []).append(name)
RECURSIVE CollectGroups(_, _, _)
CollectGroups(parent, i, gs) ==
    IF i > Len(parent.keys) THEN gs
    ELSE LET name == parent.keys[i]
             f == find(parent, name)
             old == IF HasKey(gs, f.root) THEN gs.val[f.root] ELSE <<>>
         IN  CollectGroups(f.parent, i + 1, DictSet(gs, f.root, Append(old, name)))

\* groups.values()
DictValues(d) == [i \in 1..Len(d.keys) |-> d.val[d.keys[i]]]

\* mutant of emit_groups: the groups in dict order, not sorted
emit_groupsUnsorted(gs) == SelectSeq(DictValues(gs), LAMBDA g : Len(g) > 1)

\* mutant of emit_groups: the groups of one name are returned too
emit_groupsWithSingles(gs) ==
    [i \in 1..Len(DictValues(gs)) |-> sorted(DictValues(gs)[i])]

\* [sorted(group) for group in groups.values() if len(group) > 1]
emit_groups(gs) ==
    LET kept == SelectSeq(DictValues(gs), LAMBDA g : Len(g) > 1)
    IN  [i \in 1..Len(kept) |-> sorted(kept[i])]

\* mutant of new_parent: the dict of the call before is used again
new_parentKept(prev) == prev

\* parent: dict[str, str] = {} -- each call makes its own dict, whatever an
\* earlier call left behind
new_parent(prev) == EmptyDict

\* one call of _build_merge_groups: the groups it returns and the parent
\* dict it made (prev, the dict of the latest call that made one, when it
\* returns before making its own)
build_call(prev, ps) ==
    IF merge_pairs(ps) = <<>> THEN [groups |-> <<>>, parent |-> prev]
    ELSE LET parent == UnionAll(new_parent(prev), merge_pairs(ps))
         IN  [groups |-> emit_groups(CollectGroups(parent, 1, EmptyDict)),
              parent |-> parent]

build_merge_groups(ps) == build_call(EmptyDict, ps).groups

---------------------------------------------------------------------------
(* The group builder as a state machine: a pair list comes in, one call    *)
(* returns its groups.                                                     *)

\* (the components a specification does not run stay idle)
GroupsInit ==
    /\ gpc = "input"
    /\ pairs \in PairLists
    /\ groups = <<>>
    /\ jpc = "idle" /\ response = <<>> /\ jresult = "none"
    /\ jreport = [pairs |-> <<>>, merge_groups |-> <<>>]
    /\ mpc = "idle" /\ skill_a = <<>> /\ skill_b = <<>>
    /\ mresponse = <<>> /\ mresult = <<>>
    /\ apc = "idle" /\ store = <<>> /\ askills = <<>> /\ agroups = <<>>
    /\ gi = 0 /\ group_skills = <<>> /\ aresult = <<>> /\ oi = 0
    /\ acalls = <<>> /\ aops = <<>>
    /\ ipc = "idle" /\ existing_skills = <<>> /\ new_skills = <<>>
    /\ ireport = <<>> /\ ii = 0 /\ merged_results = <<>>
    /\ merged_new_names = {} /\ novel_skills = <<>> /\ icalls = <<>>
    /\ ichats = 0 /\ iexc = "none" /\ ifail = 0
    /\ cpc = "idle" /\ cvec_a = <<>> /\ cvec_b = <<>> /\ cresult = "none"
    /\ ppc = "idle" /\ ptoken = FALSE /\ pattempt = 0 /\ plog = <<>>
    /\ presult = "none"
    /\ dpc = "idle" /\ dskills = <<>> /\ dthreshold = 0 /\ drequests = <<>>
    /\ dembed = <<>> /\ dcontent = <<>> /\ dresult = "none"
    /\ dreport = [pairs |-> <<>>, merge_groups |-> <<>>] /\ dshown = <<>>
    /\ rpc = "idle" /\ rpairs = <<>> /\ rinput = <<>> /\ rother = <<>>
    /\ rparent = [keys |-> <<>>, val |-> <<>>] /\ rruns = <<>>

BuildMergeGroups ==
    /\ gpc = "input"
    /\ groups' = build_merge_groups(pairs)
    /\ gpc' = "done"
    /\ UNCHANGED pairs
    /\ UNCHANGED <<judgeVars, mergeVars, autoVars, intoVars, detectVars, rerunVars,
                   cosineVars, copilotVars>>

GroupsNext == BuildMergeGroups

---------------------------------------------------------------------------
(* The judgment step: _analyze_pairs_llm and detect_overlaps.              *)
(*                                                                         *)
(* The text of a chat response is a list of tokens: a fence (three         *)
(* backquotes), a newline, a word (text that is no JSON, such as the       *)
(* language tag of a fence), or a JSON document.  A JSON value is          *)
(* [t, v]: its type and its content.                                       *)

JAtom(k) == [t |-> k, v |-> <<>>]
JList(s) == [t |-> "list", v |-> s]
JObj(f) == [t |-> "obj", v |-> f]

Fence == [t |-> "fence", v |-> <<>>]
NL == [t |-> "nl", v |-> <<>>]
Word == [t |-> "word", v |-> <<>>]
Doc(j) == [t |-> "doc", v |-> j]

\* judgment records as the judge may write them
FullRecordAB ==
    [skill_a |-> <<97>>, skill_b |-> <<98>>, overlap_score |-> 20,
     should_merge |-> TRUE, reason |-> "r", suggested_merged_name |-> "n"]
FullRecordBC ==
    [skill_a |-> <<98>>, skill_b |-> <<99>>, overlap_score |-> 99,
     should_merge |-> FALSE, reason |-> "r"]
BareRecord == [skill_a |-> <<97>>, skill_b |-> <<99>>]

\* the JSON documents a response may hold
JudgeDocs ==
    { JObj([pairs |-> JList(<<JObj(FullRecordAB), JObj(FullRecordBC)>>)]),
      JObj([pairs |-> JList(<<JObj(BareRecord)>>)]),
      JObj([pairs |-> JList(<<>>)]),
      JObj([pairs |-> JList(<<JObj(FullRecordAB), JAtom("num")>>)]),
      JObj([pairs |-> JAtom("null")]),
      JObj([result |-> JAtom("str")]),
      JList(<<JObj(FullRecordAB)>>),
      JAtom("num") }

Tokens == {Fence, NL, Word} \cup {Doc(j) : j \in JudgeDocs}

MaxTokens == 4

Responses == UNION {[1..n -> Tokens] : n \in 0..MaxTokens}

\* str.strip(): without the leading and trailing whitespace
RECURSIVE LStrip(_)
LStrip(c) == IF c # <<>> /\ Head(c) = NL THEN LStrip(Tail(c)) ELSE c
RECURSIVE RStrip(_)
RStrip(c) ==
    IF c # <<>> /\ c[Len(c)] = NL THEN RStrip(SubSeq(c, 1, Len(c) - 1)) ELSE c
Strip(c) == RStrip(LStrip(c))

\* the places of token k in c
Places(c, k) == {i \in 1..Len(c) : c[i] = k}
Min(S) == CHOOSE x \in S : \A y \in S : x <= y
Max(S) == CHOOSE x \in S : \A y \in S : x >= y

\* if content.startswith("```"): content = content.split("\n", 1)[1]
\* split() gives one part when there is no newline, and [1] raises IndexError
StripOpenFence(c) ==
    IF c # <<>> /\ Head(c) = Fence
    THEN IF Places(c, NL) = {}
         THEN [exc |-> "IndexError", content |-> c]
         ELSE [exc |-> "none", content |-> SubSeq(c, Min(Places(c, NL)) + 1, Len(c))]
    ELSE [exc |-> "none", content |-> c]

\* if content.endswith("```"): content = content.rsplit("```", 1)[0]
StripCloseFence(c) ==
    IF c # <<>> /\ c[Len(c)] = Fence
    THEN SubSeq(c, 1, Max(Places(c, Fence)) - 1)
    ELSE c

\* json.loads(content): the text must be one JSON document, whitespace
\* around it allowed
json_loads(c) ==
    LET d == Strip(c)
    IN  IF Len(d) = 1 /\ d[1].t = "doc"
        THEN [exc |-> "none", data |-> d[1].v]
        ELSE [exc |-> "JSONDecodeError", data |-> JAtom("null")]

\* dict.get(key, default)
Get(d, key, default) == IF key \in DOMAIN d THEN d[key] ELSE default

\* mutant of to_overlap_pair: a record without should_merge counts as a
\* recommendation
to_overlap_pairMergeByDefault(pd) ==
    [skill_a |-> Get(pd, "skill_a", <<>>),
     skill_b |-> Get(pd, "skill_b", <<>>),
     overlap_score |-> Get(pd, "overlap_score", 0),
     should_merge |-> Get(pd, "should_merge", TRUE),
     reason |-> Get(pd, "reason", ""),
     suggested_name |-> Get(pd, "suggested_merged_name", "None")]

\* OverlapPair(skill_a=pair_data.get("skill_a", ""), ...)
to_overlap_pair(pd) ==
    [skill_a |-> Get(pd, "skill_a", <<>>),
     skill_b |-> Get(pd, "skill_b", <<>>),
     overlap_score |-> Get(pd, "overlap_score", 0),
     should_merge |-> Get(pd, "should_merge", FALSE),
     reason |-> Get(pd, "reason", ""),
     suggested_name |-> Get(pd, "suggested_merged_name", "None")]

\* for pair_data in ...: report.pairs.append(OverlapPair(pair_data.get ...))
\* an entry that is no object has no get(): AttributeError
RECURSIVE append_pairs(_, _)
append_pairs(entries, acc) ==
    IF entries = <<>> THEN [exc |-> "none", pairs |-> acc]
    ELSE IF Head(entries).t # "obj" THEN [exc |-> "AttributeError", pairs |-> acc]
    ELSE append_pairs(Tail(entries), Append(acc, to_overlap_pair(Head(entries).v)))

\* for pair_data in data.get("pairs", []): data must be an object, and the
\* value of pairs something that can be iterated
read_pairs(data) ==
    IF data.t # "obj" THEN [exc |-> "AttributeError", pairs |-> <<>>]
    ELSE LET ps == Get(data.v, "pairs", JList(<<>>))
         IN  IF ps.t = "list" THEN append_pairs(ps.v, <<>>)
             ELSE IF ps.t = "str" THEN [exc |-> "AttributeError", pairs |-> <<>>]
             ELSE [exc |-> "TypeError", pairs |-> <<>>]

EmptyReport == [pairs |-> <<>>, merge_groups |-> <<>>]

\* _analyze_pairs_llm from the response on: only JSONDecodeError is caught
analyze_response(content) ==
    LET open == StripOpenFence(Strip(content))
        loaded == json_loads(Strip(StripCloseFence(open.content)))
        read == read_pairs(loaded.data)
    IN  IF open.exc # "none" THEN [exc |-> open.exc, report |-> EmptyReport]
        ELSE IF loaded.exc # "none" THEN [exc |-> "none", report |-> EmptyReport]
        ELSE IF read.exc # "none" THEN [exc |-> read.exc, report |-> EmptyReport]
        ELSE [exc |-> "none", report |-> [pairs |-> read.pairs, merge_groups |-> <<>>]]

JudgeInit ==
    /\ jpc = "ready"
    /\ response = <<>>
    /\ jresult = "none"
    /\ jreport = EmptyReport
    /\ gpc = "idle" /\ pairs = <<>> /\ groups = <<>>
    /\ mpc = "idle" /\ skill_a = <<>> /\ skill_b = <<>>
    /\ mresponse = <<>> /\ mresult = <<>>
    /\ apc = "idle" /\ store = <<>> /\ askills = <<>> /\ agroups = <<>>
    /\ gi = 0 /\ group_skills = <<>> /\ aresult = <<>> /\ oi = 0
    /\ acalls = <<>> /\ aops = <<>>
    /\ ipc = "idle" /\ existing_skills = <<>> /\ new_skills = <<>>
    /\ ireport = <<>> /\ ii = 0 /\ merged_results = <<>>
    /\ merged_new_names = {} /\ novel_skills = <<>> /\ icalls = <<>>
    /\ ichats = 0 /\ iexc = "none" /\ ifail = 0
    /\ cpc = "idle" /\ cvec_a = <<>> /\ cvec_b = <<>> /\ cresult = "none"
    /\ ppc = "idle" /\ ptoken = FALSE /\ pattempt = 0 /\ plog = <<>>
    /\ presult = "none"
    /\ dpc = "idle" /\ dskills = <<>> /\ dthreshold = 0 /\ drequests = <<>>
    /\ dembed = <<>> /\ dcontent = <<>> /\ dresult = "none"
    /\ dreport = [pairs |-> <<>>, merge_groups |-> <<>>] /\ dshown = <<>>
    /\ rpc = "idle" /\ rpairs = <<>> /\ rinput = <<>> /\ rother = <<>>
    /\ rparent = [keys |-> <<>>, val |-> <<>>] /\ rruns = <<>>

\* response = provider.chat(messages, temperature=0.1, max_tokens=2048)
JudgeChat ==
    /\ jpc = "ready"
    /\ response' \in Responses
    /\ jpc' = "parse"
    /\ UNCHANGED <<jresult, jreport>>
    /\ UNCHANGED <<groupVars, mergeVars, autoVars, intoVars, detectVars, rerunVars,
                   cosineVars, copilotVars>>

\* the rest of _analyze_pairs_llm, then in detect_overlaps
\* report.merge_groups = _build_merge_groups(report.pairs)
JudgeParse ==
    /\ jpc = "parse"
    /\ LET a == analyze_response(response)
       IN  /\ jresult' = IF a.exc = "none" THEN "returned" ELSE a.exc
           /\ jreport' = IF a.exc = "none"
                          THEN [a.report EXCEPT
                                  !.merge_groups = build_merge_groups(a.report.pairs)]
                          ELSE EmptyReport
    /\ jpc' = "done"
    /\ UNCHANGED response
    /\ UNCHANGED <<groupVars, mergeVars, autoVars, intoVars, detectVars, rerunVars,
                   cosineVars, copilotVars>>

JudgeNext == JudgeChat \/ JudgeParse

---------------------------------------------------------------------------
(* Skills and the parsing of a generated skill (generator.py).             *)

\* Optional[str]
None == [some |-> FALSE, v |-> <<>>]
Some(x) == [some |-> TRUE, v |-> x]
\* the truth value of an Optional[str]: None and "" are false
Truthy(o) == o.some /\ o.v # <<>>

\* str.strip(chars): without the leading and trailing characters of cs
RECURSIVE LStripChars(_, _)
LStripChars(str, cs) ==
    IF str # <<>> /\ Head(str) \in cs THEN LStripChars(Tail(str), cs) ELSE str
RECURSIVE RStripChars(_, _)
RStripChars(str, cs) ==
    IF str # <<>> /\ str[Len(str)] \in cs
    THEN RStripChars(SubSeq(str, 1, Len(str) - 1), cs)
    ELSE str
StripChars(str, cs) == RStripChars(LStripChars(str, cs), cs)

\* whitespace: tab, newline, carriage return, space
Whitespace == {9, 10, 13, 32}

\* value.strip().strip('"').strip("'")
Unquote(str) == StripChars(StripChars(StripChars(str, Whitespace), {34}), {39})

\* str.lower() on ASCII
Lower(str) == [i \in 1..Len(str) |-> IF str[i] \in 65..90 THEN str[i] + 32 ELSE str[i]]

\* re.sub(r"[\s_]+", "-", name): each run of whitespace and underscores
\* becomes one hyphen
RECURSIVE HyphenateRuns(_)
HyphenateRuns(str) ==
    IF str = <<>> THEN <<>>
    ELSE IF Head(str) \in Whitespace \cup {95}
         THEN <<45>> \o HyphenateRuns(LStripChars(str, Whitespace \cup {95}))
         ELSE <<Head(str)>> \o HyphenateRuns(Tail(str))

\* re.sub(r"[^a-z0-9-]", "", name)
RemoveInvalid(str) == SelectSeq(str, LAMBDA c : c \in (97..122) \cup (48..57) \cup {45})

\* re.sub(r"-{2,}", "-", name)
RECURSIVE CollapseHyphens(_)
CollapseHyphens(str) ==
    IF str = <<>> THEN <<>>
    ELSE IF Head(str) = 45
         THEN <<45>> \o CollapseHyphens(LStripChars(str, {45}))
         ELSE <<Head(str)>> \o CollapseHyphens(Tail(str))

\* _clean_skill_name: the cleaned name, or None.  A cleaned name that is not
\* empty matches ^[a-z0-9]+(-[a-z0-9]+)*$.
clean_skill_name(name) ==
    LET cleaned == StripChars(CollapseHyphens(RemoveInvalid(
                       HyphenateRuns(Lower(Unquote(name))))), {45})
        cut == IF Len(cleaned) > 64
               THEN RStripChars(SubSeq(cleaned, 1, 64), {45})
               ELSE cleaned
    IN  IF cut = <<>> THEN None ELSE Some(cut)

\* _extract_field: the value of a frontmatter line, None when there is none
extract_field(raw) == IF raw.some THEN Some(Unquote(raw.v)) ELSE None

\* if len(description) > 200: description = description[:197] + "..."
truncate_description(d) ==
    IF Len(d) > 200 THEN SubSeq(d, 1, 197) \o <<46, 46, 46>> ELSE d

\* dict.get(key) of a dict of strings, as an Optional
GetOpt(d, key) == IF key \in DOMAIN d THEN Some(d[key]) ELSE None

\* A block of a response, between two ---SKILL_SEPARATOR--- lines, is read
\* by its shape: blank, without frontmatter ("nofm") or with frontmatter
\* ("fm"), then the text after "name:" and "description:", the lines of the
\* metadata block and the body.
\* _parse_single_skill: the skill of a block, or None
parse_single_skill(raw, paper_metadata) ==
    LET name == extract_field(raw.name)
        description == extract_field(raw.description)
        cleaned == clean_skill_name(name.v)
        titled == IF Truthy(GetOpt(paper_metadata, "title"))
                  THEN ("source-paper" :> paper_metadata["title"]) @@ raw.metadata
                  ELSE raw.metadata
    IN  IF raw.kind # "fm" THEN <<>>
        ELSE IF ~Truthy(name) \/ ~Truthy(description) THEN <<>>
        ELSE IF ~cleaned.some THEN <<>>
        ELSE <<[name |-> cleaned.v,
                description |-> truncate_description(description.v),
                body |-> raw.body,
                metadata |-> titled,
                source_paper |-> GetOpt(paper_metadata, "title")]>>

\* parse_skills_from_response: the skills of the blocks that are not blank
\* and parse, in order
RECURSIVE parse_skills_from_response(_, _)
parse_skills_from_response(blocks, paper_metadata) ==
    IF blocks = <<>> THEN <<>>
    ELSE (IF Head(blocks).kind = "blank" THEN <<>>
          ELSE parse_single_skill(Head(blocks), paper_metadata))
         \o parse_skills_from_response(Tail(blocks), paper_metadata)

---------------------------------------------------------------------------
(* merge_skills (merger.py).                                               *)

\* the ascending list of a set of strings
RECURSIVE SortSet(_)
SortSet(S) ==
    IF S = {} THEN <<>>
    ELSE LET m == CHOOSE x \in S : \A y \in S \ {x} : LexLess(x, y)
         IN  <<m>> \o SortSet(S \ {m})

\* sep.join(list)
RECURSIVE Join(_, _)
Join(sep, strs) ==
    IF strs = <<>> THEN <<>>
    ELSE IF Len(strs) = 1 THEN strs[1]
    ELSE strs[1] \o sep \o Join(sep, Tail(strs))

\* papers: the source_paper of skill_a and skill_b that are not None or ""
source_papers(a, b) == {s.source_paper.v : s \in {x \in {a, b} : Truthy(x.source_paper)}}

\* mutant of combined_metadata: the keys of skill_a win over those of skill_b
combined_metadataAWins(a, b) ==
    LET base == ("merged-from" :> (a.name \o <<44, 32>> \o b.name))
                    @@ a.metadata @@ b.metadata
    IN  IF source_papers(a, b) # {}
        THEN ("source-papers" :> Join(<<59, 32>>, SortSet(source_papers(a, b)))) @@ base
        ELSE base

\* {**skill_a.metadata, **skill_b.metadata, "merged-from": ...}, then
\* combined_metadata["source-papers"] = "; ".join(sorted(papers))
combined_metadata(a, b) ==
    LET base == ("merged-from" :> (a.name \o <<44, 32>> \o b.name))
                    @@ b.metadata @@ a.metadata
    IN  IF source_papers(a, b) # {}
        THEN ("source-papers" :> Join(<<59, 32>>, SortSet(source_papers(a, b)))) @@ base
        ELSE base

\* "merged", the title merge_skills parses the response under
MergedTitle == <<109, 101, 114, 103, 101, 100>>

\* mutant of pick_merged: the last parsed skill
pick_mergedLast(skills) == skills[Len(skills)]

\* merged = skills[0]
pick_merged(skills) == skills[1]

\* merge_skills from the response on: the merged skill, or None (<<>>)
merge_skills(a, b, content) ==
    LET skills == parse_skills_from_response(content, [title |-> MergedTitle])
    IN  IF skills # <<>>
        THEN <<[pick_merged(skills) EXCEPT
                  !.metadata = combined_metadata(a, b) @@ @]>>
        ELSE <<>>

\* mutant of inputs_after_merge: the combined metadata is written into the
\* mapping of skill_a
inputs_after_mergeUpdatesA(a, b, content) ==
    <<[a EXCEPT !.metadata = combined_metadata(a, b) @@ @], b>>

\* skill_a and skill_b after the call: merge_skills only reads them
\* ({**skill_a.metadata, **skill_b.metadata, ...} is a new dict, and
\* update() is called on the metadata of the parsed skill)
inputs_after_merge(a, b, content) == <<a, b>>

\* the metadata of the skills merge_skills is run on
MergeMetas ==
    { <<>>,
      [x |-> <<49>>],
      [x |-> <<50>>, y |-> <<50>>],
      ("merged-from" :> <<122>>) @@ ("source-papers" :> <<80, 57>>) }

\* their source_paper: None, "", "P1", "P2"
MergePapers == {None, Some(<<>>), Some(<<80, 49>>), Some(<<80, 50>>)}

MergeInputs ==
    [name : {<<97>>, <<98>>}, description : {<<100>>}, body : {<<66>>},
     metadata : MergeMetas, source_paper : MergePapers]

\* the blocks of a merge response: blank; no frontmatter; no name line; a
\* name with no valid character; "A b" with a metadata line z; c with
\* metadata lines x, merged-from and source-papers; a name, no description
MergeBlocks ==
    { [kind |-> "blank", name |-> None, description |-> None,
       metadata |-> <<>>, body |-> <<>>],
      [kind |-> "nofm", name |-> None, description |-> None,
       metadata |-> <<>>, body |-> <<>>],
      [kind |-> "fm", name |-> None, description |-> Some(<<100>>),
       metadata |-> <<>>, body |-> <<66>>],
      [kind |-> "fm", name |-> Some(<<33>>), description |-> Some(<<100>>),
       metadata |-> <<>>, body |-> <<66>>],
      [kind |-> "fm", name |-> Some(<<65, 32, 98>>), description |-> Some(<<100, 49>>),
       metadata |-> [z |-> <<51>>], body |-> <<66, 49>>],
      [kind |-> "fm", name |-> Some(<<99>>), description |-> Some(<<100, 50>>),
       metadata |-> ("x" :> <<57>>) @@ ("merged-from" :> <<113>>)
                        @@ ("source-papers" :> <<81>>),
       body |-> <<66, 50>>],
      [kind |-> "fm", name |-> Some(<<99>>), description |-> None,
       metadata |-> <<>>, body |-> <<66>>] }

MaxBlocks == 2

MergeResponses == UNION {[1..n -> MergeBlocks] : n \in 0..MaxBlocks}

MergeInit ==
    /\ mpc = "ready"
    /\ skill_a \in MergeInputs
    /\ skill_b \in MergeInputs
    /\ mresponse = <<>>
    /\ mresult = <<>>
    /\ gpc = "idle" /\ pairs = <<>> /\ groups = <<>>
    /\ jpc = "idle" /\ response = <<>> /\ jresult = "none"
    /\ jreport = [pairs |-> <<>>, merge_groups |-> <<>>]
    /\ apc = "idle" /\ store = <<>> /\ askills = <<>> /\ agroups = <<>>
    /\ gi = 0 /\ group_skills = <<>> /\ aresult = <<>> /\ oi = 0
    /\ acalls = <<>> /\ aops = <<>>
    /\ ipc = "idle" /\ existing_skills = <<>> /\ new_skills = <<>>
    /\ ireport = <<>> /\ ii = 0 /\ merged_results = <<>>
    /\ merged_new_names = {} /\ novel_skills = <<>> /\ icalls = <<>>
    /\ ichats = 0 /\ iexc = "none" /\ ifail = 0
    /\ cpc = "idle" /\ cvec_a = <<>> /\ cvec_b = <<>> /\ cresult = "none"
    /\ ppc = "idle" /\ ptoken = FALSE /\ pattempt = 0 /\ plog = <<>>
    /\ presult = "none"
    /\ dpc = "idle" /\ dskills = <<>> /\ dthreshold = 0 /\ drequests = <<>>
    /\ dembed = <<>> /\ dcontent = <<>> /\ dresult = "none"
    /\ dreport = [pairs |-> <<>>, merge_groups |-> <<>>] /\ dshown = <<>>
    /\ rpc = "idle" /\ rpairs = <<>> /\ rinput = <<>> /\ rother = <<>>
    /\ rparent = [keys |-> <<>>, val |-> <<>>] /\ rruns = <<>>

\* response = provider.chat(messages, temperature=0.2, max_tokens=4096)
MergeChat ==
    /\ mpc = "ready"
    /\ mresponse' \in MergeResponses
    /\ mpc' = "parse"
    /\ UNCHANGED <<skill_a, skill_b, mresult>>
    /\ UNCHANGED <<groupVars, judgeVars, autoVars, intoVars, detectVars, rerunVars,
                   cosineVars, copilotVars>>

\* the rest of merge_skills
MergeParse ==
    /\ mpc = "parse"
    /\ mresult' = merge_skills(skill_a, skill_b, mresponse)
    /\ skill_a' = inputs_after_merge(skill_a, skill_b, mresponse)[1]
    /\ skill_b' = inputs_after_merge(skill_a, skill_b, mresponse)[2]
    /\ mpc' = "done"
    /\ UNCHANGED mresponse
    /\ UNCHANGED <<groupVars, judgeVars, autoVars, intoVars, detectVars, rerunVars,
                   cosineVars, copilotVars>>

MergeNext == MergeChat \/ MergeParse

---------------------------------------------------------------------------
(* The auto-merge loop of the merge command (cli.py) over a skills         *)
(* directory (output/opencode.py).                                         *)

\* GeneratedSkill.to_skill_md: the SKILL.md text, read by its parts
to_skill_md(skill) ==
    [name |-> skill.name, description |-> skill.description,
     metadata |-> skill.metadata, body |-> StripChars(skill.body, Whitespace)]

\* read_existing_skills, one SKILL.md
read_skill(file) ==
    [name |-> Unquote(file.name), description |-> Unquote(file.description),
     body |-> StripChars(file.body, Whitespace), metadata |-> file.metadata,
     source_paper |-> GetOpt(file.metadata, "source-paper")]

\* read_existing_skills: the skills of the directories in sorted order
read_existing_skills(dir) ==
    LET names == SortSet(DOMAIN dir)
    IN  [i \in 1..Len(names) |-> read_skill(dir[names[i]])]

\* write_skills([skill], skills_dir)
write_skill(dir, skill) ==
    (skill.name :> to_skill_md(skill)) @@ dir

\* shutil.rmtree(skills_dir / name) for each name of the group that is not
\* the result's and whose directory exists
remove_old(dir, group, result_name) ==
    [n \in DOMAIN dir \ (Range(group) \ {result_name}) |-> dir[n]]

\* the SKILL.md of skill n before the run: "P<n>" its source paper
StoredFile(n) ==
    [name |-> n, description |-> <<100>>,
     metadata |-> ("source-paper" :> (<<80>> \o n)), body |-> <<66>> \o n]

\* the skills directories the command is run on
AutoStores == {[n \in S |-> StoredFile(n)] : S \in SUBSET Names}

AutoMaxPairs == 3

\* the merge groups a report may hold: the groups of the pair lists of the
\* judge, which may name skills that are not in the directory
AutoGroupLists ==
    {build_merge_groups(ps) :
        ps \in UNION {[1..n -> [skill_a : Names, skill_b : Names,
                                overlap_score : {99}, should_merge : {TRUE},
                                reason : {"r"}, suggested_name : {"None"}]] :
                      n \in 0..AutoMaxPairs}}

\* the responses to a merge request: no skill; a skill named "ab"; a skill
\* named "m"
AutoResponses ==
    { <<>>,
      <<[kind |-> "fm", name |-> Some(<<97, 98>>), description |-> Some(<<100>>),
         metadata |-> <<>>, body |-> <<77>>]>>,
      <<[kind |-> "fm", name |-> Some(<<109>>), description |-> Some(<<100>>),
         metadata |-> <<>>, body |-> <<77>>]>> }

\* skills_by_name = {s.name: s for s in skills}
skills_by_name(skills) ==
    [n \in {skills[i].name : i \in 1..Len(skills)} |->
        skills[Max({i \in 1..Len(skills) : skills[i].name = n})]]

\* [skills_by_name[name] for name in group if name in skills_by_name]
resolve_group(group, by_name) ==
    LET known == SelectSeq(group, LAMBDA n : n \in DOMAIN by_name)
    IN  [i \in 1..Len(known) |-> by_name[known[i]]]

\* mutant of next_result: a failed step puts `other` in the accumulator
next_resultOther(result, other, merged) ==
    IF merged # <<>> THEN merged[1] ELSE other

\* if merged: result = merged
next_result(result, other, merged) ==
    IF merged # <<>> THEN merged[1] ELSE result

\* `if result:` -- result is a GeneratedSkill, a dataclass without __bool__
\* or __len__: always true
result_is_truthy(result) == TRUE

AutoInit ==
    /\ apc = "read"
    /\ store \in AutoStores
    /\ askills = <<>> /\ agroups = <<>>
    /\ gi = 0 /\ group_skills = <<>> /\ aresult = <<>> /\ oi = 0
    /\ acalls = <<>> /\ aops = <<>>
    /\ gpc = "idle" /\ pairs = <<>> /\ groups = <<>>
    /\ jpc = "idle" /\ response = <<>> /\ jresult = "none"
    /\ jreport = [pairs |-> <<>>, merge_groups |-> <<>>]
    /\ mpc = "idle" /\ skill_a = <<>> /\ skill_b = <<>>
    /\ mresponse = <<>> /\ mresult = <<>>
    /\ ipc = "idle" /\ existing_skills = <<>> /\ new_skills = <<>>
    /\ ireport = <<>> /\ ii = 0 /\ merged_results = <<>>
    /\ merged_new_names = {} /\ novel_skills = <<>> /\ icalls = <<>>
    /\ ichats = 0 /\ iexc = "none" /\ ifail = 0
    /\ cpc = "idle" /\ cvec_a = <<>> /\ cvec_b = <<>> /\ cresult = "none"
    /\ ppc = "idle" /\ ptoken = FALSE /\ pattempt = 0 /\ plog = <<>>
    /\ presult = "none"
    /\ dpc = "idle" /\ dskills = <<>> /\ dthreshold = 0 /\ drequests = <<>>
    /\ dembed = <<>> /\ dcontent = <<>> /\ dresult = "none"
    /\ dreport = [pairs |-> <<>>, merge_groups |-> <<>>] /\ dshown = <<>>
    /\ rpc = "idle" /\ rpairs = <<>> /\ rinput = <<>> /\ rother = <<>>
    /\ rparent = [keys |-> <<>>, val |-> <<>>] /\ rruns = <<>>

\* skills = read_existing_skills(skills_dir); fewer than 2: exit
AutoRead ==
    /\ apc = "read"
    /\ askills' = read_existing_skills(store)
    /\ apc' = IF Len(askills') < 2 THEN "done" ELSE "detect"
    /\ UNCHANGED <<store, agroups, gi, group_skills, aresult, oi, acalls, aops>>
    /\ UNCHANGED <<groupVars, judgeVars, mergeVars, intoVars, detectVars, rerunVars,
                   cosineVars, copilotVars>>

\* report = detect_overlaps(skills, llm), which may raise;
\* if auto_merge and report.merge_groups
AutoDetect ==
    /\ apc = "detect"
    /\ \/ /\ agroups' \in AutoGroupLists
          /\ apc' = IF agroups' = <<>> THEN "done" ELSE "group"
          /\ gi' = 1
       \/ /\ apc' = "raised"
          /\ UNCHANGED <<agroups, gi>>
    /\ UNCHANGED <<store, askills, group_skills, aresult, oi, acalls, aops>>
    /\ UNCHANGED <<groupVars, judgeVars, mergeVars, intoVars, detectVars, rerunVars,
                   cosineVars, copilotVars>>

\* mutant of skips_group: only a group with no resolved member is skipped
skips_groupOnlyEmpty(gs) == Len(gs) < 1

\* if len(group_skills) < 2: continue
skips_group(gs) == Len(gs) < 2

\* for group in report.merge_groups: resolve the members; fewer than 2:
\* continue; else result = group_skills[0] and the loop over
\* group_skills[1:], which has no turn when there is no second member
AutoBeginGroup ==
    /\ apc = "group"
    /\ IF gi > Len(agroups)
       THEN /\ apc' = "done"
            /\ UNCHANGED <<gi, group_skills, aresult, oi>>
       ELSE LET gs == resolve_group(agroups[gi], skills_by_name(askills))
            IN  IF skips_group(gs)
                THEN /\ gi' = gi + 1
                     /\ UNCHANGED <<apc, group_skills, aresult, oi>>
                ELSE /\ group_skills' = gs
                     /\ aresult' = <<gs[1]>>
                     /\ oi' = 2
                     /\ apc' = IF Len(gs) >= 2 THEN "merge" ELSE "write"
                     /\ UNCHANGED gi
    /\ UNCHANGED <<store, askills, agroups, acalls, aops>>
    /\ UNCHANGED <<groupVars, judgeVars, mergeVars, intoVars, detectVars, rerunVars,
                   cosineVars, copilotVars>>

\* for other in group_skills[1:]: merged = do_merge(result, other, llm)
AutoMergeStep ==
    /\ apc = "merge"
    /\ \E content \in AutoResponses :
          LET other == group_skills[oi]
              merged == merge_skills(aresult[1], other, content)
          IN  /\ acalls' = Append(acalls, [g |-> gi, left |-> aresult[1],
                                           right |-> other, merged |-> merged])
              /\ aresult' = <<next_result(aresult[1], other, merged)>>
    /\ oi' = oi + 1
    /\ apc' = IF oi = Len(group_skills) THEN "write" ELSE "merge"
    /\ UNCHANGED <<store, askills, agroups, gi, group_skills, aops>>
    /\ UNCHANGED <<groupVars, judgeVars, mergeVars, intoVars, detectVars, rerunVars,
                   cosineVars, copilotVars>>

\* the removals of a group, in the group's order
removals(dir, group, result_name, g) ==
    LET gone == SelectSeq(group, LAMBDA n : n # result_name /\ n \in DOMAIN dir)
    IN  [i \in 1..Len(gone) |-> [g |-> g, op |-> "rmtree", name |-> gone[i]]]

\* if result: write_skills([result], skills_dir), then remove the
\* directories of the group's other names
AutoWrite ==
    /\ apc = "write"
    /\ IF result_is_truthy(aresult[1])
       THEN LET written == write_skill(store, aresult[1])
            IN  /\ store' = remove_old(written, agroups[gi], aresult[1].name)
                /\ aops' = aops
                      \o <<[g |-> gi, op |-> "write", name |-> aresult[1].name]>>
                      \o removals(written, agroups[gi], aresult[1].name, gi)
       ELSE UNCHANGED <<store, aops>>
    /\ gi' = gi + 1
    /\ group_skills' = <<>>
    /\ aresult' = <<>>
    /\ oi' = 0
    /\ apc' = "group"
    /\ UNCHANGED <<askills, agroups, acalls>>
    /\ UNCHANGED <<groupVars, judgeVars, mergeVars, intoVars, detectVars, rerunVars,
                   cosineVars, copilotVars>>

AutoNext == AutoRead \/ AutoDetect \/ AutoBeginGroup \/ AutoMergeStep \/ AutoWrite

---------------------------------------------------------------------------
(* merge_into_existing (merger.py).                                        *)

\* next(s for s in skills if s.name == name): the first skill of that name,
\* <<>> when there is none (next() then raises StopIteration)
first_named(skills, name) ==
    LET at == {i \in 1..Len(skills) : skills[i].name = name}
    IN  IF at = {} THEN <<>> ELSE <<skills[Min(at)]>>

NamesOf(skills) == {skills[i].name : i \in 1..Len(skills)}

\* mutant of acts_on: the should_merge flag is not looked at
acts_onAnyFlag(pair, existing_names, new_names) ==
    \/ (pair.skill_a \in existing_names /\ pair.skill_b \in new_names)
    \/ (pair.skill_a \in new_names /\ pair.skill_b \in existing_names)

\* the pairs the loop acts on: should_merge, and
\* (a_is_existing and b_is_new) or (a_is_new and b_is_existing)
acts_on(pair, existing_names, new_names) ==
    /\ pair.should_merge
    /\ \/ (pair.skill_a \in existing_names /\ pair.skill_b \in new_names)
       \/ (pair.skill_a \in new_names /\ pair.skill_b \in existing_names)

\* existing_name = pair.skill_a if a_is_existing else pair.skill_b
existing_name_of(pair, existing_names) ==
    IF pair.skill_a \in existing_names THEN pair.skill_a ELSE pair.skill_b

\* new_name = pair.skill_b if a_is_existing else pair.skill_a
new_name_of(pair, existing_names) ==
    IF pair.skill_a \in existing_names THEN pair.skill_b ELSE pair.skill_a

\* mutant of add_merged_name: the name is recorded whether or not the merge
\* gave a skill
add_merged_nameAlways(names, new_name, merged) == names \cup {new_name}

\* if merged: merged_new_names.add(new_name)
add_merged_name(names, new_name, merged) ==
    IF merged # <<>> THEN names \cup {new_name} ELSE names

\* novel_skills = [s for s in new_skills if s.name not in merged_new_names]
novel_of(skills, names) == SelectSeq(skills, LAMBDA sk : sk.name \notin names)

\* the names of the skills of a call: "a", "b", "c"
IntoNames == {<<97>>, <<98>>, <<99>>}

MaxSkills == 2

\* the lists of up to MaxSkills skills with distinct names; the body tells
\* an existing skill ("E...") from a new one ("N...")
SkillLists(tag) ==
    LET lists == UNION {[1..n -> IntoNames] : n \in 0..MaxSkills}
        distinct == {l \in lists : Cardinality(Range(l)) = Len(l)}
    IN  {[i \in 1..Len(l) |->
            [name |-> l[i], description |-> <<100>>, body |-> <<tag>> \o l[i],
             metadata |-> <<>>, source_paper |-> None]] : l \in distinct}

IntoMaxPairs == 2

\* the pair lists of the report of detect_overlaps
IntoPairLists ==
    UNION {[1..n -> [skill_a : IntoNames, skill_b : IntoNames,
                     overlap_score : {99}, should_merge : BOOLEAN,
                     reason : {"r"}, suggested_name : {"None"}]] :
           n \in 0..IntoMaxPairs}

\* the responses to a merge request: no skill; a skill named "m"
IntoResponses ==
    { <<>>,
      <<[kind |-> "fm", name |-> Some(<<109>>), description |-> Some(<<100>>),
         metadata |-> <<>>, body |-> <<77>>]>> }

IntoInit ==
    /\ ipc = "call"
    /\ existing_skills \in SkillLists(69)
    /\ new_skills \in SkillLists(78)
    /\ ireport = <<>> /\ ii = 0 /\ merged_results = <<>>
    /\ merged_new_names = {} /\ novel_skills = <<>> /\ icalls = <<>>
    /\ ichats = 0 /\ iexc = "none" /\ ifail = 0
    /\ cpc = "idle" /\ cvec_a = <<>> /\ cvec_b = <<>> /\ cresult = "none"
    /\ ppc = "idle" /\ ptoken = FALSE /\ pattempt = 0 /\ plog = <<>>
    /\ presult = "none"
    /\ gpc = "idle" /\ pairs = <<>> /\ groups = <<>>
    /\ jpc = "idle" /\ response = <<>> /\ jresult = "none"
    /\ jreport = [pairs |-> <<>>, merge_groups |-> <<>>]
    /\ mpc = "idle" /\ skill_a = <<>> /\ skill_b = <<>>
    /\ mresponse = <<>> /\ mresult = <<>>
    /\ apc = "idle" /\ store = <<>> /\ askills = <<>> /\ agroups = <<>>
    /\ gi = 0 /\ group_skills = <<>> /\ aresult = <<>> /\ oi = 0
    /\ acalls = <<>> /\ aops = <<>>
    /\ dpc = "idle" /\ dskills = <<>> /\ dthreshold = 0 /\ drequests = <<>>
    /\ dembed = <<>> /\ dcontent = <<>> /\ dresult = "none"
    /\ dreport = [pairs |-> <<>>, merge_groups |-> <<>>] /\ dshown = <<>>
    /\ rpc = "idle" /\ rpairs = <<>> /\ rinput = <<>> /\ rother = <<>>
    /\ rparent = [keys |-> <<>>, val |-> <<>>] /\ rruns = <<>>

\* mutant of after_provider_error: the failure is taken for an empty answer
\* and the call goes on
after_provider_errorGoesOn(step) == "go on"

\* provider.chat(...) is called outside any try block, in _analyze_pairs_llm
\* ("detect") and in merge_skills ("merge"); its exception leaves the call
after_provider_error(step) == "raise"

\* mutant of next_pair: a merge that gave no skill ends the loop
next_pairStopOnFailure(i, n, merged) == IF merged = <<>> THEN n + 1 ELSE i + 1

\* the loop `for pair in report.pairs` goes on to the next pair whatever
\* merge_skills returned
next_pair(i, n, merged) == i + 1

\* if not existing_skills: return [], new_skills
\* report = detect_overlaps(existing_skills + new_skills, provider, threshold):
\* with fewer than 2 skills an empty report and no provider call, else the
\* pairs of the judge, or the exception the judgment step raised on the
\* response, or the exception of the provider
IntoDetect ==
    /\ ipc = "call"
    /\ IF existing_skills = <<>>
       THEN /\ ipc' = "returned"
            /\ novel_skills' = new_skills
            /\ UNCHANGED <<ireport, ii, ichats, iexc, ifail>>
       ELSE IF Len(existing_skills \o new_skills) < 2
       THEN /\ ipc' = "loop"
            /\ ii' = 1
            /\ UNCHANGED <<ireport, novel_skills, ichats, iexc, ifail>>
       ELSE /\ ichats' = ichats + 1
            /\ \/ /\ ireport' \in IntoPairLists
                  /\ ipc' = "loop"
                  /\ ii' = 1
                  /\ UNCHANGED <<iexc, ifail>>
               \/ /\ ipc' = "raised"
                  /\ iexc' = "JudgeError"
                  /\ UNCHANGED <<ireport, ii, ifail>>
               \/ /\ ifail' = ichats + 1
                  /\ IF after_provider_error("detect") = "raise"
                     THEN /\ ipc' = "raised"
                          /\ iexc' = "ProviderError"
                          /\ UNCHANGED <<ireport, ii>>
                     ELSE /\ ipc' = "loop"
                          /\ ii' = 1
                          /\ UNCHANGED <<ireport, iexc>>
            /\ UNCHANGED novel_skills
    /\ UNCHANGED <<existing_skills, new_skills, merged_results,
                   merged_new_names, icalls>>
    /\ UNCHANGED <<groupVars, judgeVars, mergeVars, autoVars, detectVars, rerunVars,
                   cosineVars, copilotVars>>

\* one turn of `for pair in report.pairs`
IntoPair ==
    /\ ipc = "loop"
    /\ ii <= Len(ireport)
    /\ LET pair == ireport[ii]
           existing_names == NamesOf(existing_skills)
           new_names == NamesOf(new_skills)
           existing_skill == first_named(existing_skills,
                                         existing_name_of(pair, existing_names))
           new_name == new_name_of(pair, existing_names)
           new_skill == first_named(new_skills, new_name)
       IN  IF ~acts_on(pair, existing_names, new_names)
           THEN /\ ii' = ii + 1
                /\ UNCHANGED <<ipc, merged_results, merged_new_names, icalls,
                               ichats, iexc, ifail>>
           ELSE IF existing_skill = <<>> \/ new_skill = <<>>
           THEN /\ ipc' = "raised"
                /\ iexc' = "StopIteration"
                /\ UNCHANGED <<ii, merged_results, merged_new_names, icalls,
                               ichats, ifail>>
           ELSE \/ \E content \in IntoResponses :
                     LET merged == merge_skills(existing_skill[1], new_skill[1], content)
                     IN  /\ icalls' = Append(icalls, [idx |-> ii, left |-> existing_skill[1],
                                                      right |-> new_skill[1],
                                                      merged |-> merged])
                         /\ ichats' = ichats + 1
                         /\ merged_results' = merged_results \o merged
                         /\ merged_new_names' =
                               add_merged_name(merged_new_names, new_name, merged)
                         /\ ii' = next_pair(ii, Len(ireport), merged)
                         /\ UNCHANGED <<ipc, iexc, ifail>>
                \/ /\ ichats' = ichats + 1
                   /\ ifail' = ichats + 1
                   /\ IF after_provider_error("merge") = "raise"
                      THEN /\ ipc' = "raised"
                           /\ iexc' = "ProviderError"
                           /\ UNCHANGED <<ii, icalls>>
                      ELSE /\ icalls' = Append(icalls, [idx |-> ii,
                                                        left |-> existing_skill[1],
                                                        right |-> new_skill[1],
                                                        merged |-> <<>>])
                           /\ ii' = ii + 1
                           /\ UNCHANGED <<ipc, iexc>>
                   /\ UNCHANGED <<merged_results, merged_new_names>>
    /\ UNCHANGED <<existing_skills, new_skills, ireport, novel_skills>>
    /\ UNCHANGED <<groupVars, judgeVars, mergeVars, autoVars, detectVars, rerunVars,
                   cosineVars, copilotVars>>

\* after the loop: return merged_results, novel_skills
IntoReturn ==
    /\ ipc = "loop"
    /\ ii > Len(ireport)
    /\ novel_skills' = novel_of(new_skills, merged_new_names)
    /\ ipc' = "returned"
    /\ UNCHANGED <<existing_skills, new_skills, ireport, ii, merged_results,
                   merged_new_names, icalls, ichats, iexc, ifail>>
    /\ UNCHANGED <<groupVars, judgeVars, mergeVars, autoVars, detectVars, rerunVars,
                   cosineVars, copilotVars>>

IntoNext == IntoDetect \/ IntoPair \/ IntoReturn

---------------------------------------------------------------------------
(* detect_overlaps as a whole (merger.py): the choice between the all-pairs *)
(* judgment and the embedding filter, the requests it makes, the report it *)
(* returns, and how the report is shown.                                   *)

\* combinations(range(n), 2), places counted from 1: (1,2), (1,3), ...
combinations(n) ==
    LET row(i) == [k \in 1..(n - i) |-> <<i, i + k>>]
        rows[i \in 0..n] ==
            IF i = 0 THEN <<>> ELSE rows[i - 1] \o row(i)
    IN  rows[n]

\* mutant of pair_descriptions: the pairs of neighbours only
pair_descriptionsNeighbours(skills) ==
    [i \in 1..(Len(skills) - 1) |-> <<skills[i].name, skills[i + 1].name>>]

\* pair_descriptions: one line '- Pair: "a" vs "b"' per combination
pair_descriptions(skills) ==
    LET cs == combinations(Len(skills))
    IN  [k \in 1..Len(cs) |-> <<skills[cs[k][1]].name, skills[cs[k][2]].name>>]

\* s[:n]
Prefix(s, n) == SubSeq(s, 1, IF Len(s) < n THEN Len(s) ELSE n)

BodyShownToJudge == 500
BodyEmbedded == 300

\* the chat request of _analyze_pairs_llm: a part per skill (its name, its
\* description, the first 500 characters of its body) and the pair lines
chat_request(skills) ==
    [kind |-> "chat",
     skills |-> [i \in 1..Len(skills) |->
                   [name |-> skills[i].name,
                    description |-> skills[i].description,
                    body |-> Prefix(skills[i].body, BodyShownToJudge)]],
     pairs |-> pair_descriptions(skills)]

\* texts = [f"{s.name}: {s.description}\n{s.body[:300]}" for s in skills]
embed_request(skills) ==
    [kind |-> "embed",
     texts |-> [i \in 1..Len(skills) |->
                  [name |-> skills[i].name,
                   description |-> skills[i].description,
                   body |-> Prefix(skills[i].body, BodyEmbedded)]]]

\* sum(x * y for x, y in zip(a, b)): zip stops at the shorter vector
RECURSIVE Dot(_, _)
Dot(a, b) ==
    IF a = <<>> \/ b = <<>> THEN 0
    ELSE Head(a) * Head(b) + Dot(Tail(a), Tail(b))

\* _cosine_similarity(a, b), kept exact: the value is num / sqrt(den2);
\* 0.0 when a norm is 0
cosine_similarity(a, b) ==
    IF Dot(a, a) = 0 \/ Dot(b, b) = 0
    THEN [num |-> 0, den2 |-> 1]
    ELSE [num |-> Dot(a, b), den2 |-> Dot(a, a) * Dot(b, b)]

\* mutant of reaches: the threshold itself is the bound
reachesThreshold(sim, threshold) ==
    IF sim.num < 0 THEN FALSE
    ELSE sim.num * sim.num * 10000 >= threshold * threshold * sim.den2

\* sim >= threshold * 0.7, the threshold in hundredths (not negative)
reaches(sim, threshold) ==
    IF sim.num < 0 THEN FALSE
    ELSE sim.num * sim.num * 1000000 >= 49 * threshold * threshold * sim.den2

\* candidate_pairs: the combinations (i, j) whose similarity reaches the bound
candidate_pairs(embeddings, n, threshold) ==
    SelectSeq(combinations(n),
              LAMBDA c : reaches(cosine_similarity(embeddings[c[1]],
                                                   embeddings[c[2]]), threshold))

\* filtered_skills = [skills[i] for i in sorted(candidate_skills)]
filtered_skills(skills, cands) ==
    LET candidate_skills == UNION {{cands[k][1], cands[k][2]} : k \in 1..Len(cands)}
        pick(i) == i \in candidate_skills
        idx == SelectSeq([i \in 1..Len(skills) |-> i], pick)
    IN  [k \in 1..Len(idx) |-> skills[idx[k]]]

\* the skills of a call: skill i is named by the i-th letter, "a", "b", ...
DetectSkill(i) ==
    [name |-> <<96 + i>>, description |-> <<100>>, body |-> <<66, 96 + i>>,
     metadata |-> <<>>, source_paper |-> None]

\* the sizes of the input: around the two limits, 2 and 10
DetectSizes == {0, 1, 2, 3, 10, 11, 12}

DetectInputs == {[i \in 1..n |-> DetectSkill(i)] : n \in DetectSizes}

\* threshold, in hundredths
Thresholds == {50, 70}

\* embeddings: a skill's vector is Cold (similar to nothing) or one of the
\* hot vectors, whose similarities are 0.45 (<<1,0>> and <<1,2>>), 0.71
\* (<<1,0>> and <<1,1>>), 0.95 (<<1,1>> and <<1,2>>) and 1
Cold == <<0, 0>>
HotVectors == {<<1, 0>>, <<1, 1>>, <<1, 2>>}

MaxHot == 3

EmbeddingLists(n) ==
    LET hot == {S \in SUBSET (1..n) : Cardinality(S) <= MaxHot}
    IN  UNION {{[i \in 1..n |-> IF i \in S THEN f[i] ELSE Cold] :
                  f \in [S -> HotVectors]} : S \in hot}

\* what provider.get_embeddings(texts) does: a vector per text, or an
\* exception (NotImplementedError when it has no embeddings)
EmbedOutcomes(n) ==
    {[exc |-> "none", vectors |-> e] : e \in EmbeddingLists(n)}
    \cup {[exc |-> x, vectors |-> <<>>] : x \in {"NotImplementedError", "RuntimeError"}}

FullRecordAC ==
    [skill_a |-> <<97>>, skill_b |-> <<99>>, overlap_score |-> 99,
     should_merge |-> FALSE, reason |-> "r"]
MergeRecordBC ==
    [skill_a |-> <<98>>, skill_b |-> <<99>>, overlap_score |-> 50,
     should_merge |-> TRUE, reason |-> "r"]

\* the payloads of the judge in a run of detect_overlaps
DetectDocs ==
    { JObj([pairs |-> JList(<<JObj(FullRecordAB), JObj(FullRecordAC),
                              JObj(MergeRecordBC)>>)]),
      JObj([pairs |-> JList(<<JObj(FullRecordAB), JObj(BareRecord)>>)]),
      JObj([pairs |-> JList(<<JObj(FullRecordAB), JObj(FullRecordAB),
                              JObj(FullRecordBC)>>)]),
      JObj([pairs |-> JList(<<>>)]),
      JAtom("num") }

\* response.content: a payload bare or fenced, or text that is no JSON
DetectResponses ==
    {<<Doc(j)>> : j \in DetectDocs}
    \cup {<<Fence, Word, NL, Doc(JObj([pairs |-> JList(<<JObj(MergeRecordBC)>>)])),
             NL, Fence>>}
    \cup {<<Word>>}

\* mutant of too_few: only the empty input is turned away
too_fewEmpty(skills) == Len(skills) < 1

\* if len(skills) < 2: return MergeReport()
too_few(skills) == Len(skills) < 2

\* if len(skills) <= 10: the all-pairs judgment, else the embedding filter
small_set(skills) == Len(skills) <= 10

\* mutant of falls_back: no exception of get_embeddings is caught
falls_backNever(exc) == FALSE

\* except NotImplementedError: report = _analyze_pairs_llm(skills, provider)
falls_back(exc) == exc = "NotImplementedError"

\* mutant of judged_pairs: should_merge is derived from the score
judged_pairsByThreshold(ps, threshold) ==
    [i \in 1..Len(ps) |->
        [ps[i] EXCEPT !.should_merge = (ps[i].overlap_score >= threshold)]]

\* the pairs of the report of _analyze_pairs_llm go to the group builder as
\* they are: detect_overlaps reads neither overlap_score nor threshold
judged_pairs(ps, threshold) == ps

\* mutant of with_merge_groups: the groups are left as MergeReport() has them
with_merge_groupsEmpty(report) == report

\* report.merge_groups = _build_merge_groups(report.pairs)
with_merge_groups(report) ==
    [report EXCEPT !.merge_groups = build_merge_groups(report.pairs)]

\* print_summary: the two counts it prints
print_summary(report) ==
    [recommended |-> Len(SelectSeq(report.pairs, LAMBDA q : q.should_merge)),
     total |-> Len(report.pairs)]

\* sorted(pairs, key=lambda p: p.overlap_score, reverse=True): stable, equal
\* scores keep their order
RECURSIVE InsertByScore(_, _)
InsertByScore(x, s) ==
    IF s = <<>> THEN <<x>>
    ELSE IF Head(s).overlap_score < x.overlap_score THEN <<x>> \o s
    ELSE <<Head(s)>> \o InsertByScore(x, Tail(s))
RECURSIVE sorted_by_score(_)
sorted_by_score(s) ==
    IF s = <<>> THEN <<>>
    ELSE InsertByScore(s[Len(s)], sorted_by_score(SubSeq(s, 1, Len(s) - 1)))

\* to_markdown: the rows of the pair table and the lines of the groups
to_markdown(report) ==
    IF report.pairs = <<>> THEN [rows |-> <<>>, groups |-> <<>>]
    ELSE LET ordered == sorted_by_score(report.pairs)
         IN  [rows |-> [i \in 1..Len(ordered) |->
                          [skill_a |-> ordered[i].skill_a,
                           skill_b |-> ordered[i].skill_b,
                           overlap |-> ordered[i].overlap_score,
                           merge |-> IF ordered[i].should_merge THEN "YES" ELSE "no",
                           reason |-> ordered[i].reason]],
              groups |-> [i \in 1..Len(report.merge_groups) |->
                            Join(<<44, 32>>, report.merge_groups[i])]]

\* mutant of pairs_after_to_markdown: the list is sorted in place
pairs_after_to_markdownInPlace(ps) == sorted_by_score(ps)

\* self.pairs after to_markdown: sorted() makes a new list
pairs_after_to_markdown(ps) == ps

DetectInit ==
    /\ dpc = "call"
    /\ dskills \in DetectInputs
    /\ dthreshold \in Thresholds
    /\ drequests = <<>> /\ dembed = <<>> /\ dcontent = <<>>
    /\ dresult = "none" /\ dreport = EmptyReport /\ dshown = <<>>
    /\ gpc = "idle" /\ pairs = <<>> /\ groups = <<>>
    /\ jpc = "idle" /\ response = <<>> /\ jresult = "none"
    /\ jreport = [pairs |-> <<>>, merge_groups |-> <<>>]
    /\ mpc = "idle" /\ skill_a = <<>> /\ skill_b = <<>>
    /\ mresponse = <<>> /\ mresult = <<>>
    /\ apc = "idle" /\ store = <<>> /\ askills = <<>> /\ agroups = <<>>
    /\ gi = 0 /\ group_skills = <<>> /\ aresult = <<>> /\ oi = 0
    /\ acalls = <<>> /\ aops = <<>>
    /\ ipc = "idle" /\ existing_skills = <<>> /\ new_skills = <<>>
    /\ ireport = <<>> /\ ii = 0 /\ merged_results = <<>>
    /\ merged_new_names = {} /\ novel_skills = <<>> /\ icalls = <<>>
    /\ ichats = 0 /\ iexc = "none" /\ ifail = 0
    /\ cpc = "idle" /\ cvec_a = <<>> /\ cvec_b = <<>> /\ cresult = "none"
    /\ ppc = "idle" /\ ptoken = FALSE /\ pattempt = 0 /\ plog = <<>>
    /\ presult = "none"
    /\ rpc = "idle" /\ rpairs = <<>> /\ rinput = <<>> /\ rother = <<>>
    /\ rparent = [keys |-> <<>>, val |-> <<>>] /\ rruns = <<>>

\* detect_overlaps up to its first provider call: fewer than 2 skills give
\* MergeReport() at once; up to 10 the chat request of _analyze_pairs_llm is
\* made; above 10 the embedding request of _analyze_pairs_embeddings
DetectCall ==
    /\ dpc = "call"
    /\ IF too_few(dskills)
       THEN /\ dpc' = "returned"
            /\ dresult' = "returned"
            /\ dreport' = EmptyReport
            /\ UNCHANGED <<drequests, dembed, dcontent>>
       ELSE IF small_set(dskills)
       THEN /\ drequests' = Append(drequests, chat_request(dskills))
            /\ dcontent' \in DetectResponses
            /\ dpc' = "parse"
            /\ UNCHANGED <<dembed, dresult, dreport>>
       ELSE /\ drequests' = Append(drequests, embed_request(dskills))
            /\ dembed' \in EmbedOutcomes(Len(dskills))
            /\ dpc' = "embedded"
            /\ UNCHANGED <<dcontent, dresult, dreport>>
    /\ UNCHANGED <<dskills, dthreshold, dshown>>
    /\ UNCHANGED <<groupVars, judgeVars, mergeVars, autoVars, intoVars, rerunVars,
                   cosineVars, copilotVars>>

\* after get_embeddings: NotImplementedError falls back to the all-pairs
\* judgment of all the skills, another exception leaves detect_overlaps;
\* with vectors, no candidate pair gives MergeReport(), else the judgment
\* of the filtered skills is asked for
DetectFilter ==
    /\ dpc = "embedded"
    /\ IF dembed.exc # "none"
       THEN IF falls_back(dembed.exc)
            THEN /\ drequests' = Append(drequests, chat_request(dskills))
                 /\ dcontent' \in DetectResponses
                 /\ dpc' = "parse"
                 /\ UNCHANGED <<dresult, dreport>>
            ELSE /\ dpc' = "raised"
                 /\ dresult' = dembed.exc
                 /\ UNCHANGED <<drequests, dcontent, dreport>>
       ELSE LET cands == candidate_pairs(dembed.vectors, Len(dskills), dthreshold)
            IN  IF cands = <<>>
                THEN /\ dpc' = "returned"
                     /\ dresult' = "returned"
                     /\ dreport' = with_merge_groups(EmptyReport)
                     /\ UNCHANGED <<drequests, dcontent>>
                ELSE /\ drequests' =
                           Append(drequests, chat_request(filtered_skills(dskills, cands)))
                     /\ dcontent' \in DetectResponses
                     /\ dpc' = "parse"
                     /\ UNCHANGED <<dresult, dreport>>
    /\ UNCHANGED <<dskills, dthreshold, dembed, dshown>>
    /\ UNCHANGED <<groupVars, judgeVars, mergeVars, autoVars, intoVars, rerunVars,
                   cosineVars, copilotVars>>

\* the rest of _analyze_pairs_llm, then the group builder of line 122
DetectParse ==
    /\ dpc = "parse"
    /\ LET a == analyze_response(dcontent)
       IN  IF a.exc # "none"
           THEN /\ dpc' = "raised"
                /\ dresult' = a.exc
                /\ UNCHANGED dreport
           ELSE /\ dpc' = "returned"
                /\ dresult' = "returned"
                /\ dreport' = with_merge_groups(
                                 [a.report EXCEPT
                                    !.pairs = judged_pairs(@, dthreshold)])
    /\ UNCHANGED <<dskills, dthreshold, drequests, dembed, dcontent, dshown>>
    /\ UNCHANGED <<groupVars, judgeVars, mergeVars, autoVars, intoVars, rerunVars,
                   cosineVars, copilotVars>>

\* the caller shows the report: report.print_summary() and
\* report.to_markdown()
DetectShow ==
    /\ dpc = "returned"
    /\ dshown' = <<[summary |-> print_summary(dreport),
                    markdown |-> to_markdown(dreport)]>>
    /\ dreport' = [dreport EXCEPT !.pairs = pairs_after_to_markdown(@)]
    /\ dpc' = "shown"
    /\ UNCHANGED <<dskills, dthreshold, drequests, dembed, dcontent, dresult>>
    /\ UNCHANGED <<groupVars, judgeVars, mergeVars, autoVars, intoVars, rerunVars,
                   cosineVars, copilotVars>>

DetectNext == DetectCall \/ DetectFilter \/ DetectParse \/ DetectShow

---------------------------------------------------------------------------
(* The group builder called again and again: an earlier call on another    *)
(* pair list, then two calls on the same list.                             *)

RerunMaxPairs == 2

RerunPairLists == UNION {[1..n -> PairInputs] : n \in 0..RerunMaxPairs}

\* the list of the earlier call: empty, or one recommended pair
RerunOtherLists ==
    {<<>>} \cup {<<q>> : q \in {x \in PairInputs : x.should_merge /\ x.overlap_score = 99}}

RerunInit ==
    /\ rpc = "other"
    /\ rpairs \in RerunPairLists
    /\ rinput = rpairs
    /\ rother \in RerunOtherLists
    /\ rparent = EmptyDict
    /\ rruns = <<>>
    /\ gpc = "idle" /\ pairs = <<>> /\ groups = <<>>
    /\ jpc = "idle" /\ response = <<>> /\ jresult = "none"
    /\ jreport = [pairs |-> <<>>, merge_groups |-> <<>>]
    /\ mpc = "idle" /\ skill_a = <<>> /\ skill_b = <<>>
    /\ mresponse = <<>> /\ mresult = <<>>
    /\ apc = "idle" /\ store = <<>> /\ askills = <<>> /\ agroups = <<>>
    /\ gi = 0 /\ group_skills = <<>> /\ aresult = <<>> /\ oi = 0
    /\ acalls = <<>> /\ aops = <<>>
    /\ ipc = "idle" /\ existing_skills = <<>> /\ new_skills = <<>>
    /\ ireport = <<>> /\ ii = 0 /\ merged_results = <<>>
    /\ merged_new_names = {} /\ novel_skills = <<>> /\ icalls = <<>>
    /\ ichats = 0 /\ iexc = "none" /\ ifail = 0
    /\ cpc = "idle" /\ cvec_a = <<>> /\ cvec_b = <<>> /\ cresult = "none"
    /\ ppc = "idle" /\ ptoken = FALSE /\ pattempt = 0 /\ plog = <<>>
    /\ presult = "none"
    /\ dpc = "idle" /\ dskills = <<>> /\ dthreshold = 0 /\ drequests = <<>>
    /\ dembed = <<>> /\ dcontent = <<>> /\ dresult = "none"
    /\ dreport = [pairs |-> <<>>, merge_groups |-> <<>>] /\ dshown = <<>>

\* _build_merge_groups(rother): an earlier call, its result not kept
RerunOther ==
    /\ rpc = "other"
    /\ rparent' = build_call(rparent, rother).parent
    /\ rpc' = "first"
    /\ UNCHANGED <<rpairs, rinput, rother, rruns>>
    /\ UNCHANGED <<groupVars, judgeVars, mergeVars, autoVars, intoVars, detectVars,
                   cosineVars, copilotVars>>

\* _build_merge_groups(rpairs): the list is only read (line 243 makes a new
\* list of its should_merge pairs)
RerunCall ==
    /\ rpc \in {"first", "again"}
    /\ rruns' = Append(rruns, build_call(rparent, rpairs).groups)
    /\ rparent' = build_call(rparent, rpairs).parent
    /\ rpc' = IF rpc = "first" THEN "again" ELSE "done"
    /\ UNCHANGED <<rpairs, rinput, rother>>
    /\ UNCHANGED <<groupVars, judgeVars, mergeVars, autoVars, intoVars, detectVars,
                   cosineVars, copilotVars>>

RerunNext == RerunOther \/ RerunCall

---------------------------------------------------------------------------
(* _cosine_similarity (merger.py), called on its own.                      *)

MaxDim == 2

\* the components of the vectors
Components == {-1, 0, 1, 2}

\* the vectors the function is called with: of any length up to MaxDim,
\* the empty vector and the zero vectors among them
Vectors == UNION {[1..n -> Components] : n \in 0..MaxDim}

\* mutant of zero_norm_guard: only the norm of a is looked at
zero_norm_guardFirstOnly(na2, nb2) == na2 = 0

\* if norm_a == 0 or norm_b == 0, on the squares of the norms
zero_norm_guard(na2, nb2) == na2 = 0 \/ nb2 = 0

\* one call of _cosine_similarity: dot and the norms over zip(a, b) and over
\* each vector, the guard, then the division, which raises when the product
\* of the norms is 0
cosine_call(a, b) ==
    IF zero_norm_guard(Dot(a, a), Dot(b, b))
    THEN [exc |-> "none", sim |-> [num |-> 0, den2 |-> 1]]
    ELSE IF Dot(a, a) * Dot(b, b) = 0
    THEN [exc |-> "ZeroDivisionError", sim |-> [num |-> 0, den2 |-> 0]]
    ELSE [exc |-> "none", sim |-> cosine_similarity(a, b)]

CosineInit ==
    /\ cpc = "call"
    /\ cvec_a \in Vectors
    /\ cvec_b \in Vectors
    /\ cresult = "none"
    /\ gpc = "idle" /\ pairs = <<>> /\ groups = <<>>
    /\ jpc = "idle" /\ response = <<>> /\ jresult = "none"
    /\ jreport = [pairs |-> <<>>, merge_groups |-> <<>>]
    /\ mpc = "idle" /\ skill_a = <<>> /\ skill_b = <<>>
    /\ mresponse = <<>> /\ mresult = <<>>
    /\ apc = "idle" /\ store = <<>> /\ askills = <<>> /\ agroups = <<>>
    /\ gi = 0 /\ group_skills = <<>> /\ aresult = <<>> /\ oi = 0
    /\ acalls = <<>> /\ aops = <<>>
    /\ ipc = "idle" /\ existing_skills = <<>> /\ new_skills = <<>>
    /\ ireport = <<>> /\ ii = 0 /\ merged_results = <<>>
    /\ merged_new_names = {} /\ novel_skills = <<>> /\ icalls = <<>>
    /\ ichats = 0 /\ iexc = "none" /\ ifail = 0
    /\ dpc = "idle" /\ dskills = <<>> /\ dthreshold = 0 /\ drequests = <<>>
    /\ dembed = <<>> /\ dcontent = <<>> /\ dresult = "none"
    /\ dreport = [pairs |-> <<>>, merge_groups |-> <<>>] /\ dshown = <<>>
    /\ rpc = "idle" /\ rpairs = <<>> /\ rinput = <<>> /\ rother = <<>>
    /\ rparent = [keys |-> <<>>, val |-> <<>>] /\ rruns = <<>>
    /\ ppc = "idle" /\ ptoken = FALSE /\ pattempt = 0 /\ plog = <<>>
    /\ presult = "none"

\* _cosine_similarity(a, b)
CosineCall ==
    /\ cpc = "call"
    /\ cresult' = cosine_call(cvec_a, cvec_b)
    /\ cpc' = "done"
    /\ UNCHANGED <<cvec_a, cvec_b>>
    /\ UNCHANGED <<groupVars, judgeVars, mergeVars, autoVars, intoVars,
                   detectVars, rerunVars, copilotVars>>

CosineNext == CosineCall

---------------------------------------------------------------------------
(* CopilotProvider.chat (providers/copilot.py).                            *)

\* max_retries = 3
max_retries == 3

\* the log of a call holds at most 2 * max_retries + 1 requests
MaxLog == 8

\* what chat.completions.create gives: a response, RateLimitError, or an
\* APIError with status 401, a status of 500 or more, another status, or no
\* status
CreateOutcomes == {"ok", "RateLimitError", "401", "500", "400", "no status"}

\* what the token exchange of _ensure_token gives: a session token, or
\* EnvironmentError (401, 403, 404, no token in the answer), or the
\* HTTPError of raise_for_status
ExchangeOutcomes == {"ok", "EnvironmentError", "HTTPError"}

create_request(attempt, outcome) ==
    [req |-> "create", outcome |-> outcome, attempt |-> attempt]
exchange_request(attempt, outcome) ==
    [req |-> "exchange", outcome |-> outcome, attempt |-> attempt]

\* mutant of next_attempt: an attempt answered 401 is made again
next_attemptFree401(attempt, outcome) ==
    IF outcome = "401" THEN attempt ELSE attempt + 1

\* for attempt in range(max_retries): the attempt after one that neither
\* returned nor raised
next_attempt(attempt, outcome) == attempt + 1

CopilotInit ==
    /\ ppc = "ensure"
    /\ ptoken \in BOOLEAN
    /\ pattempt = 0
    /\ plog = <<>>
    /\ presult = "none"
    /\ gpc = "idle" /\ pairs = <<>> /\ groups = <<>>
    /\ jpc = "idle" /\ response = <<>> /\ jresult = "none"
    /\ jreport = [pairs |-> <<>>, merge_groups |-> <<>>]
    /\ mpc = "idle" /\ skill_a = <<>> /\ skill_b = <<>>
    /\ mresponse = <<>> /\ mresult = <<>>
    /\ apc = "idle" /\ store = <<>> /\ askills = <<>> /\ agroups = <<>>
    /\ gi = 0 /\ group_skills = <<>> /\ aresult = <<>> /\ oi = 0
    /\ acalls = <<>> /\ aops = <<>>
    /\ ipc = "idle" /\ existing_skills = <<>> /\ new_skills = <<>>
    /\ ireport = <<>> /\ ii = 0 /\ merged_results = <<>>
    /\ merged_new_names = {} /\ novel_skills = <<>> /\ icalls = <<>>
    /\ ichats = 0 /\ iexc = "none" /\ ifail = 0
    /\ dpc = "idle" /\ dskills = <<>> /\ dthreshold = 0 /\ drequests = <<>>
    /\ dembed = <<>> /\ dcontent = <<>> /\ dresult = "none"
    /\ dreport = [pairs |-> <<>>, merge_groups |-> <<>>] /\ dshown = <<>>
    /\ rpc = "idle" /\ rpairs = <<>> /\ rinput = <<>> /\ rother = <<>>
    /\ rparent = [keys |-> <<>>, val |-> <<>>] /\ rruns = <<>>
    /\ cpc = "idle" /\ cvec_a = <<>> /\ cvec_b = <<>> /\ cresult = "none"

\* self._ensure_token() at the start of chat: nothing when a token is held,
\* else the exchange, whose failure leaves chat
CopilotEnsure ==
    /\ ppc = "ensure"
    /\ IF ptoken
       THEN /\ ppc' = "loop"
            /\ UNCHANGED <<ptoken, plog, presult>>
       ELSE \E x \in ExchangeOutcomes :
               /\ plog' = Append(plog, exchange_request(pattempt, x))
               /\ IF x = "ok"
                  THEN /\ ptoken' = TRUE
                       /\ ppc' = "loop"
                       /\ UNCHANGED presult
                  ELSE /\ presult' = x
                       /\ ppc' = "done"
                       /\ UNCHANGED ptoken
    /\ UNCHANGED pattempt
    /\ UNCHANGED <<groupVars, judgeVars, mergeVars, autoVars, intoVars,
                   detectVars, rerunVars, cosineVars>>

\* one turn of `for attempt in range(max_retries)`: the request and the
\* except clause its outcome leads to
CopilotAttempt ==
    /\ ppc = "loop"
    /\ pattempt < max_retries
    /\ Len(plog) < MaxLog
    /\ \E o \in CreateOutcomes :
          LET log1 == Append(plog, create_request(pattempt, o))
          IN  IF o = "ok"
              THEN /\ plog' = log1
                   /\ presult' = "response"
                   /\ ppc' = "done"
                   /\ UNCHANGED <<ptoken, pattempt>>
              ELSE IF o = "RateLimitError"
              THEN /\ plog' = log1
                   /\ IF pattempt = max_retries - 1
                      THEN /\ presult' = "RateLimitError"
                           /\ ppc' = "done"
                           /\ UNCHANGED pattempt
                      ELSE /\ pattempt' = next_attempt(pattempt, o)
                           /\ UNCHANGED <<ppc, presult>>
                   /\ UNCHANGED ptoken
              ELSE IF o = "401"
              THEN \E x \in ExchangeOutcomes :
                      /\ plog' = Append(log1, exchange_request(pattempt, x))
                      /\ IF x = "ok"
                         THEN /\ ptoken' = TRUE
                              /\ pattempt' = next_attempt(pattempt, o)
                              /\ UNCHANGED <<ppc, presult>>
                         ELSE /\ ptoken' = FALSE
                              /\ presult' = x
                              /\ ppc' = "done"
                              /\ UNCHANGED pattempt
              ELSE IF o = "500" /\ pattempt < max_retries - 1
              THEN /\ plog' = log1
                   /\ pattempt' = next_attempt(pattempt, o)
                   /\ UNCHANGED <<ppc, presult, ptoken>>
              ELSE /\ plog' = log1
                   /\ presult' = "APIError"
                   /\ ppc' = "done"
                   /\ UNCHANGED <<ptoken, pattempt>>
    /\ UNCHANGED <<groupVars, judgeVars, mergeVars, autoVars, intoVars,
                   detectVars, rerunVars, cosineVars>>

\* after the loop: raise RuntimeError("Max retries exceeded")
CopilotExhausted ==
    /\ ppc = "loop"
    /\ pattempt >= max_retries
    /\ presult' = "RuntimeError"
    /\ ppc' = "done"
    /\ UNCHANGED <<ptoken, pattempt, plog>>
    /\ UNCHANGED <<groupVars, judgeVars, mergeVars, autoVars, intoVars,
                   detectVars, rerunVars, cosineVars>>

CopilotNext == CopilotEnsure \/ CopilotAttempt \/ CopilotExhausted

---------------------------------------------------------------------------
(* Specifications, one per component.                                      *)

SpecGroups == GroupsInit /\ [][GroupsNext]_vars

SpecJudge == JudgeInit /\ [][JudgeNext]_vars

SpecMerge == MergeInit /\ [][MergeNext]_vars

SpecAuto == AutoInit /\ [][AutoNext]_vars

SpecInto == IntoInit /\ [][IntoNext]_vars

SpecDetect == DetectInit /\ [][DetectNext]_vars

SpecRerun == RerunInit /\ [][RerunNext]_vars

SpecCosine == CosineInit /\ [][CosineNext]_vars

SpecCopilot == CopilotInit /\ [][CopilotNext]_vars

\* every request of chat is made with a timeout and every wait is a
\* time.sleep of a finite time: a call that can take a step takes one
SpecCopilotFair == SpecCopilot /\ WF_vars(CopilotNext)

---------------------------------------------------------------------------
(* Claims about the group builder.                                         *)

\* the should_merge=true pairs as edges between names
MergeEdges(ps) ==
    {<<ps[i].skill_a, ps[i].skill_b>> : i \in {j \in 1..Len(ps) : ps[j].should_merge}}

\* the names reachable from the set S along edges E, in either direction
RECURSIVE Reach(_, _)
Reach(S, E) ==
    LET T == S \cup {e[2] : e \in {f \in E : f[1] \in S}}
                \cup {e[1] : e \in {f \in E : f[2] \in S}}
    IN  IF T = S THEN S ELSE Reach(T, E)

SameGroup(gs, x, y) ==
    \E i \in 1..Len(gs) : x \in Range(gs[i]) /\ y \in Range(gs[i])

\* C1: two distinct names are in one returned group if and only if a path
\* of should_merge=true pairs connects them, so a group is a maximal
\* connected component.
C1_GroupsAreComponents ==
    gpc = "done" =>
        \A x \in Names : \A y \in Names \ {x} :
            SameGroup(groups, x, y) <=> y \in Reach({x}, MergeEdges(pairs))

HasPair(ps, a, b, m) ==
    \E i \in 1..Len(ps) :
        ps[i].skill_a = a /\ ps[i].skill_b = b /\ ps[i].should_merge = m

\* (A,B) and (B,C) recommended, (A,C) judged and not recommended: one group
\* of A, B and C.
C1_Witness ==
    /\ gpc = "done"
    /\ HasPair(pairs, <<97>>, <<98>>, TRUE)
    /\ HasPair(pairs, <<98>>, <<99>>, TRUE)
    /\ HasPair(pairs, <<97>>, <<99>>, FALSE)
    /\ groups = << <<(<<97>>), (<<98>>), (<<99>>)>> >>

\* C2: every returned group has at least 2 members, no name twice, is in
\* ascending lexicographic order, and no name is in two groups.
C2_GroupsWellFormed ==
    gpc = "done" =>
        /\ \A i \in 1..Len(groups) :
              /\ Len(groups[i]) >= 2
              /\ \A j \in 1..(Len(groups[i]) - 1) :
                    LexLess(groups[i][j], groups[i][j + 1])
              /\ Cardinality(Range(groups[i])) = Len(groups[i])
        /\ \A i \in 1..Len(groups) : \A j \in 1..Len(groups) :
              i # j => Range(groups[i]) \cap Range(groups[j]) = {}

\* Two groups, the pairs given with the greater name first.
C2_Witness ==
    /\ gpc = "done"
    /\ HasPair(pairs, <<98>>, <<97>>, TRUE)
    /\ HasPair(pairs, <<99>>, <<97, 98>>, TRUE)
    /\ Len(groups) = 2
    /\ <<(<<97>>), (<<98>>)>> \in Range(groups)
    /\ <<(<<97, 98>>), (<<99>>)>> \in Range(groups)

\* the list ps with every score replaced by s, every reason by r and every
\* suggested name by n
Revalued(ps, s, r, n) ==
    [i \in 1..Len(ps) |->
        [ps[i] EXCEPT !.overlap_score = s, !.reason = r, !.suggested_name = n]]

\* C3: the groups depend only on the names and the should_merge flags: the
\* result is the one of the list with every score, reason and suggested
\* name replaced by a fixed value (so two lists that differ only in these
\* fields give the same groups), and the one of the list without its
\* should_merge=false pairs, whatever their scores.
C3_ScoreIndependent ==
    gpc = "done" =>
        /\ \A s \in Scores :
              build_merge_groups(Revalued(pairs, s, "r2", "n")) = groups
        /\ build_merge_groups(SelectSeq(pairs, LAMBDA p : p.should_merge)) = groups

\* A pair scored 0.99 and not recommended stays apart, a pair scored 0.20
\* and recommended forms the group.
C3_Witness ==
    /\ gpc = "done"
    /\ \E i \in 1..Len(pairs) :
          /\ pairs[i].overlap_score = 99 /\ ~pairs[i].should_merge
          /\ pairs[i].skill_a # pairs[i].skill_b
          /\ ~SameGroup(groups, pairs[i].skill_a, pairs[i].skill_b)
    /\ \E i \in 1..Len(pairs) :
          /\ pairs[i].overlap_score = 20 /\ pairs[i].should_merge
          /\ pairs[i].skill_a # pairs[i].skill_b
          /\ SameGroup(groups, pairs[i].skill_a, pairs[i].skill_b)

---------------------------------------------------------------------------
(* Claims about the judgment step.                                         *)

\* C4: the judgment step never raises because of the content of the
\* response: whatever the text, it returns a report.
C4_JudgeNeverRaises == jpc = "done" => jresult = "returned"

---------------------------------------------------------------------------
(* Claims about merge_skills.                                              *)

\* a block that is a valid skill: frontmatter, a name and a description that
\* are not empty, and a name that keeps at least one valid character
ValidBlock(b) ==
    /\ b.kind = "fm"
    /\ b.name.some /\ Unquote(b.name.v) # <<>>
    /\ b.description.some /\ Unquote(b.description.v) # <<>>
    /\ clean_skill_name(b.name.v).some

PaperValues ==
    {x.source_paper.v : x \in {y \in {skill_a, skill_b} :
                                    y.source_paper.some /\ y.source_paper.v # <<>>}}

\* the metadata parsed from the response for the returned skill
ParsedMetadata ==
    parse_skills_from_response(mresponse, [title |-> MergedTitle])[1].metadata

MergedFrom == skill_a.name \o <<44, 32>> \o skill_b.name

\* C8 as stated: every key of a and b is kept, b's value on a shared key,
\* merged-from and source-papers as computed, source-papers absent when
\* neither skill has a source_paper, other parsed keys kept.
C8_MetadataAsStated ==
    (mpc = "done" /\ mresult # <<>>) =>
        LET r == mresult[1].metadata
            a == skill_a.metadata
            b == skill_b.metadata
        IN  /\ (DOMAIN a \cup DOMAIN b) \subseteq DOMAIN r
            /\ \A k \in DOMAIN a \cap DOMAIN b : r[k] = b[k]
            /\ r["merged-from"] = MergedFrom
            /\ PaperValues # {} =>
                 /\ "source-papers" \in DOMAIN r
                 /\ r["source-papers"] = Join(<<59, 32>>, SortSet(PaperValues))
            /\ PaperValues = {} => "source-papers" \notin DOMAIN r
            /\ \A k \in DOMAIN ParsedMetadata \
                        (DOMAIN a \cup DOMAIN b \cup {"merged-from", "source-papers"}) :
                 k \in DOMAIN r /\ r[k] = ParsedMetadata[k]

\* the keys merge_skills computes a value for
ComputedKeys ==
    {"merged-from"} \cup (IF PaperValues # {} THEN {"source-papers"} ELSE {})

\* C8, amended: as stated, but merged-from and (when a or b has a
\* source_paper) source-papers hold the computed values also when a and b
\* share the key, and when neither has a source_paper the call sets no
\* source-papers: the key is in the result only if a, b or the parsed
\* response has it, with the value of b, else a, else the response.
C8_MetadataAmended ==
    (mpc = "done" /\ mresult # <<>>) =>
        LET r == mresult[1].metadata
            a == skill_a.metadata
            b == skill_b.metadata
        IN  /\ (DOMAIN a \cup DOMAIN b) \subseteq DOMAIN r
            /\ \A k \in (DOMAIN a \cap DOMAIN b) \ ComputedKeys : r[k] = b[k]
            /\ r["merged-from"] = MergedFrom
            /\ PaperValues # {} =>
                 /\ "source-papers" \in DOMAIN r
                 /\ r["source-papers"] = Join(<<59, 32>>, SortSet(PaperValues))
            /\ PaperValues = {} =>
                 /\ "source-papers" \in DOMAIN r <=>
                        "source-papers" \in
                            DOMAIN a \cup DOMAIN b \cup DOMAIN ParsedMetadata
                 /\ "source-papers" \in DOMAIN r =>
                        r["source-papers"] =
                            IF "source-papers" \in DOMAIN b THEN b["source-papers"]
                            ELSE IF "source-papers" \in DOMAIN a THEN a["source-papers"]
                            ELSE ParsedMetadata["source-papers"]
            /\ \A k \in DOMAIN ParsedMetadata \
                        (DOMAIN a \cup DOMAIN b \cup {"merged-from", "source-papers"}) :
                 k \in DOMAIN r /\ r[k] = ParsedMetadata[k]

\* a = {x: 1} from "P2", b = {x: 2, y: 2} from "P1", the response a skill
\* with a metadata line z: x and y are b's, source-papers is "P1; P2" and z
\* is kept.
C8_Witness ==
    /\ mpc = "done"
    /\ mresult # <<>>
    /\ skill_a.metadata = [x |-> <<49>>]
    /\ skill_b.metadata = [x |-> <<50>>, y |-> <<50>>]
    /\ skill_a.source_paper = Some(<<80, 50>>)
    /\ skill_b.source_paper = Some(<<80, 49>>)
    /\ mresult[1].metadata["x"] = <<50>>
    /\ mresult[1].metadata["source-papers"] = <<80, 49, 59, 32, 80, 50>>
    /\ "z" \in DOMAIN mresult[1].metadata

---------------------------------------------------------------------------
(* Claims about the auto-merge loop.                                       *)

\* the calls of group g, in order
CallsOf(g) == SelectSeq(acalls, LAMBDA c : c.g = g)

\* the stored skill named n was an operand of a merge step of group g that
\* succeeded
OperandOfSuccess(g, n) ==
    \E i \in 1..Len(acalls) :
        /\ acalls[i].g = g
        /\ acalls[i].merged # <<>>
        /\ \E k \in 1..Len(askills) :
              /\ askills[k].name = n
              /\ askills[k] \in {acalls[i].left, acalls[i].right}

\* C5: a directory is removed only if its skill was an operand of a merge
\* step that succeeded, and a group whose merge steps all failed soft has
\* no write and no removal.
C5_RemoveOnlyMerged ==
    \A i \in 1..Len(aops) :
        /\ aops[i].op = "rmtree" => OperandOfSuccess(aops[i].g, aops[i].name)
        /\ \E j \in 1..Len(acalls) :
              acalls[j].g = aops[i].g /\ acalls[j].merged # <<>>

\* the accumulator before call i of the list cs of a group's calls: the
\* result of the latest call before i that succeeded, else the first member
AccBefore(cs, i, first) ==
    LET ok == {j \in 1..(i - 1) : cs[j].merged # <<>>}
    IN  IF ok = {} THEN first ELSE cs[Max(ok)].merged[1]

\* C6: within a group the calls are a left-to-right fold: call i has member
\* i+1 as right operand and the accumulator as left operand, a failed call
\* leaves the accumulator as it was, and when the group is done k-1 calls
\* were made for its k resolved members.
C6_LeftFold ==
    apc \in {"merge", "write"} =>
        LET cs == CallsOf(gi)
        IN  /\ Len(cs) = oi - 2
            /\ apc = "write" => Len(cs) = Len(group_skills) - 1
            /\ \A i \in 1..Len(cs) :
                  /\ cs[i].right = group_skills[i + 1]
                  /\ cs[i].left = AccBefore(cs, i, group_skills[1])
            /\ aresult[1] = AccBefore(cs, Len(cs) + 1, group_skills[1])

\* A group of three members: the first call fails, the second succeeds on
\* the first member and the third.
C6_Witness ==
    /\ apc = "write"
    /\ Len(group_skills) = 3
    /\ CallsOf(gi)[1].merged = <<>>
    /\ CallsOf(gi)[2].merged # <<>>
    /\ CallsOf(gi)[2].left = group_skills[1]
    /\ CallsOf(gi)[2].right = group_skills[3]

---------------------------------------------------------------------------
(* Claims about merge_into_existing.                                       *)

\* the judgment has one name in the existing set and the other in the new set
CrossSet(p) ==
    \/ (p.skill_a \in NamesOf(existing_skills) /\ p.skill_b \in NamesOf(new_skills))
    \/ (p.skill_a \in NamesOf(new_skills) /\ p.skill_b \in NamesOf(existing_skills))

\* the calls made for the judgment at place k of the report
CallsAt(k) == SelectSeq(icalls, LAMBDA c : c.idx = k)

\* C9: every merge call belongs to a should_merge judgment with one name in
\* each set, its left operand is the existing skill and its right operand
\* the new skill the judgment names, both as they were passed in; a judgment
\* that is not should_merge or not cross-set has no call, and no judgment
\* has more than one.
C9_OnlyCrossPairs ==
    /\ \A j \in 1..Len(icalls) :
          LET c == icalls[j]
              p == ireport[c.idx]
          IN  /\ p.should_merge
              /\ CrossSet(p)
              /\ c.left \in Range(existing_skills)
              /\ c.right \in Range(new_skills)
              /\ <<c.left.name, c.right.name>> \in
                     {<<p.skill_a, p.skill_b>>, <<p.skill_b, p.skill_a>>}
    /\ \A k \in 1..Len(ireport) :
          /\ Len(CallsAt(k)) <= 1
          /\ (~ireport[k].should_merge \/ ~CrossSet(ireport[k]))
                => CallsAt(k) = <<>>

\* Both judgments were gone through: the first one is should_merge but names
\* two existing skills and got no call, the second one is cross-set and was
\* merged, after an earlier merge had already succeeded or not.
C9_Witness ==
    /\ ipc = "returned"
    /\ Len(ireport) = 2
    /\ ireport[1].should_merge
    /\ ireport[1].skill_a \in NamesOf(existing_skills) \ NamesOf(new_skills)
    /\ ireport[1].skill_b \in NamesOf(existing_skills) \ NamesOf(new_skills)
    /\ CallsAt(1) = <<>>
    /\ Len(CallsAt(2)) = 1
    /\ CallsAt(2)[1].merged # <<>>

\* the new skill sk was the new-side operand of a merge that succeeded and
\* whose result is among the returned merged skills
Consumed(sk) ==
    \E j \in 1..Len(icalls) :
        /\ icalls[j].right = sk
        /\ icalls[j].merged # <<>>
        /\ icalls[j].merged[1] \in Range(merged_results)

\* C10: on return the novel list is the new skills, in input order, that
\* were not the new-side operand of a merge that succeeded; each new skill
\* is novel or consumed and not both; with no existing skills the result is
\* ([], new_skills) and the provider was not called.
C10_NovelPartition ==
    ipc = "returned" =>
        /\ novel_skills = SelectSeq(new_skills, LAMBDA sk : ~Consumed(sk))
        /\ \A i \in 1..Len(new_skills) :
              InSeq(new_skills[i], novel_skills) <=> ~Consumed(new_skills[i])
        /\ existing_skills = <<>> =>
              /\ merged_results = <<>>
              /\ novel_skills = new_skills
              /\ ichats = 0

\* Two new skills were each the operand of one merge: the first merge failed
\* soft and its new skill stayed novel, the second succeeded and its new
\* skill is not in the novel list.
C10_Witness ==
    /\ ipc = "returned"
    /\ Len(new_skills) = 2
    /\ Len(icalls) = 2
    /\ icalls[1].merged = <<>>
    /\ icalls[2].merged # <<>>
    /\ icalls[1].right # icalls[2].right
    /\ novel_skills = <<icalls[1].right>>
    /\ Len(merged_results) = 1

---------------------------------------------------------------------------
(* Claims about detect_overlaps.                                           *)

ChatRequests == SelectSeq(drequests, LAMBDA r : r.kind = "chat")
EmbedRequests == SelectSeq(drequests, LAMBDA r : r.kind = "embed")

NamesInOrder(skills) == [i \in 1..Len(skills) |-> skills[i].name]

\* the request lists each unordered pair of the skills exactly once, and
\* nothing else
ListsAllPairsOnce(req, skills) ==
    /\ Len(req.pairs) * 2 = Len(skills) * (Len(skills) - 1)
    /\ \A i, j \in 1..Len(skills) :
          i < j =>
             Cardinality({k \in 1..Len(req.pairs) :
                            req.pairs[k] \in {<<skills[i].name, skills[j].name>>,
                                              <<skills[j].name, skills[i].name>>}}) = 1

\* C11: with 2 to 10 skills detect_overlaps makes one chat request and no
\* embedding request, and the request lists each of the C(n,2) unordered
\* pairs of skills exactly once.
C11_OneRequestAllPairs ==
    (dpc \notin {"idle", "call"} /\ Len(dskills) >= 2 /\ Len(dskills) <= 10) =>
        /\ Len(drequests) = 1
        /\ drequests[1].kind = "chat"
        /\ NamesInOrder(drequests[1].skills) = NamesInOrder(dskills)
        /\ ListsAllPairsOnce(drequests[1], dskills)

\* Ten skills were judged by one request of 45 pairs and the report came back.
C11_Witness ==
    /\ dpc = "shown"
    /\ Len(dskills) = 10
    /\ Len(drequests) = 1
    /\ Len(drequests[1].pairs) = 45
    /\ dreport.merge_groups # <<>>

\* the cosine similarity of vectors u and v is at least 0.7 times the
\* threshold t (in hundredths, positive): both sides squared
SimilarAt(u, v, t) ==
    /\ Dot(u, v) > 0
    /\ Dot(u, v) * Dot(u, v) * 1000000 >= 49 * t * t * Dot(u, u) * Dot(v, v)

\* the places of the skills that are in at least one pair similar enough
\* (a vector of norm 0 has similarity 0 to every vector)
Covered ==
    LET nonzero == {i \in 1..Len(dskills) :
                      Dot(dembed.vectors[i], dembed.vectors[i]) > 0}
    IN  {i \in nonzero :
            \E j \in nonzero \ {i} :
                SimilarAt(dembed.vectors[i], dembed.vectors[j], dthreshold)}

\* C12: with more than 10 skills and embeddings at hand there is one
\* embedding request, of one text per skill in input order, then at most one
\* chat request; that request is about exactly the skills that are in a
\* pair of similarity >= threshold x 0.7, in input order; when there is no
\* such pair there is no chat request and the report is empty.
C12_EmbeddingFilter ==
    (dpc \notin {"idle", "call", "embedded"} /\ Len(dskills) > 10 /\ dembed.exc = "none") =>
        /\ Len(EmbedRequests) = 1
        /\ drequests[1].kind = "embed"
        /\ Len(drequests[1].texts) = Len(dskills)
        /\ \A i \in 1..Len(dskills) :
              /\ drequests[1].texts[i].name = dskills[i].name
              /\ drequests[1].texts[i].description = dskills[i].description
        /\ Len(ChatRequests) <= 1
        /\ LET covered == Covered
           IN  IF covered = {}
               THEN /\ ChatRequests = <<>>
                    /\ dresult = "returned"
                    /\ dreport = EmptyReport
               ELSE /\ Len(ChatRequests) = 1
                    /\ NamesInOrder(ChatRequests[1].skills) =
                          NamesInOrder(SelectSeq(dskills,
                             LAMBDA sk : \E i \in covered : dskills[i] = sk))

\* Twelve skills at threshold 0.7: three of them, not the first three, are
\* similar enough to a neighbour though two of the three are not similar to
\* each other, and the one chat request is about these three.
C12_Witness ==
    /\ dpc = "shown"
    /\ Len(dskills) = 12
    /\ dthreshold = 70
    /\ dembed.exc = "none"
    /\ Covered = {2, 5, 12}
    /\ ~SimilarAt(dembed.vectors[2], dembed.vectors[12], dthreshold)
    /\ Len(ChatRequests) = 1
    /\ NamesInOrder(ChatRequests[1].skills) = <<<<98>>, <<101>>, <<108>>>>

\* C13: with more than 10 skills and a provider whose get_embeddings raises
\* NotImplementedError, that exception does not leave detect_overlaps: one
\* all-pairs chat request about all the skills is made and the outcome is
\* that of the judgment of its response, the report carrying the groups
\* built from its pairs.
C13_FallbackToAllPairs ==
    (dpc \notin {"idle", "call", "embedded"} /\ Len(dskills) > 10
       /\ dembed.exc = "NotImplementedError") =>
        /\ dresult # "NotImplementedError"
        /\ Len(ChatRequests) = 1
        /\ Len(EmbedRequests) = 1
        /\ NamesInOrder(ChatRequests[1].skills) = NamesInOrder(dskills)
        /\ ListsAllPairsOnce(ChatRequests[1], dskills)
        /\ dpc \in {"returned", "shown", "raised"} =>
              LET a == analyze_response(dcontent)
              IN  IF a.exc = "none"
                  THEN /\ dresult = "returned"
                       /\ dreport.pairs = a.report.pairs
                       /\ dreport.merge_groups = build_merge_groups(a.report.pairs)
                  ELSE dresult = a.exc

\* Eleven skills, no embeddings: the report of the fallback came back with a
\* merge group.
C13_Witness ==
    /\ dpc = "returned"
    /\ Len(dskills) = 11
    /\ dembed # <<>>
    /\ dembed.exc = "NotImplementedError"
    /\ Len(ChatRequests) = 1
    /\ Len(ChatRequests[1].pairs) = 55
    /\ dreport.merge_groups = <<<<<<97>>, <<98>>, <<99>>>>>>

\* C14: with no skill or one skill detect_overlaps returns a report without
\* pairs and without groups and makes no request to the provider.
C14_TooFewSkills ==
    (dpc \notin {"idle", "call"} /\ Len(dskills) < 2) =>
        /\ drequests = <<>>
        /\ dresult = "returned"
        /\ dreport.pairs = <<>>
        /\ dreport.merge_groups = <<>>

\* One skill went in and the empty report came back.
C14_Witness ==
    /\ dpc = "returned"
    /\ Len(dskills) = 1
    /\ dresult = "returned"
    /\ drequests = <<>>

\* the judgment records of the payload in dcontent, in payload order (none
\* when the response holds no JSON object with a pairs list)
PayloadRecords ==
    LET docs == SelectSeq(dcontent, LAMBDA tk : tk.t = "doc")
    IN  IF docs = <<>> THEN <<>>
        ELSE IF docs[1].v.t # "obj" THEN <<>>
        ELSE IF "pairs" \notin DOMAIN docs[1].v.v THEN <<>>
        ELSE [i \in 1..Len(docs[1].v.v.pairs.v) |-> docs[1].v.v.pairs.v[i].v]

\* a report of the judgment of dcontent has come back
Judged == dpc \in {"returned", "shown"} /\ ChatRequests # <<>>

\* the list s without the places in D
Without(s, D) ==
    LET keep == SelectSeq([i \in 1..Len(s) |-> i], LAMBDA i : i \notin D)
    IN  [k \in 1..Len(keep) |-> s[keep[k]]]

\* C15: a record's missing fields become overlap_score 0, should_merge
\* false, an empty reason and no suggested name, and the merge groups of the
\* report are those of the report without the records that lack
\* should_merge.
C15_ConservativeDefaults ==
    Judged =>
        /\ Len(dreport.pairs) = Len(PayloadRecords)
        /\ \A i \in 1..Len(PayloadRecords) :
              LET rec == PayloadRecords[i]
                  pair == dreport.pairs[i]
              IN  /\ "overlap_score" \notin DOMAIN rec => pair.overlap_score = 0
                  /\ "should_merge" \notin DOMAIN rec => pair.should_merge = FALSE
                  /\ "reason" \notin DOMAIN rec => pair.reason = ""
                  /\ "suggested_merged_name" \notin DOMAIN rec =>
                        pair.suggested_name = "None"
        /\ dreport.merge_groups =
              build_merge_groups(
                 Without(dreport.pairs,
                         {i \in 1..Len(PayloadRecords) :
                             "should_merge" \notin DOMAIN PayloadRecords[i]}))

\* The payload held a recommendation for a and b and a record of a and c
\* without any other field: the report has both, the second with the
\* defaults, and the one group is [a, b].
C15_Witness ==
    /\ Judged
    /\ Len(PayloadRecords) = 2
    /\ DOMAIN PayloadRecords[2] = {"skill_a", "skill_b"}
    /\ dreport.pairs[2] =
          [skill_a |-> <<97>>, skill_b |-> <<99>>, overlap_score |-> 0,
           should_merge |-> FALSE, reason |-> "", suggested_name |-> "None"]
    /\ dreport.merge_groups = <<<<<<97>>, <<98>>>>>>

\* C16: every pair of the report has the should_merge of its record, whatever
\* its score and the threshold; the two names of a should_merge=true pair
\* are in one group, and the groups are those of the should_merge=true
\* pairs alone.
C16_ShouldMergeAsJudged ==
    Judged =>
        /\ Len(dreport.pairs) = Len(PayloadRecords)
        /\ \A i \in 1..Len(PayloadRecords) :
              "should_merge" \in DOMAIN PayloadRecords[i] =>
                 dreport.pairs[i].should_merge = PayloadRecords[i].should_merge
        /\ \A i \in 1..Len(dreport.pairs) :
              (dreport.pairs[i].should_merge
                 /\ dreport.pairs[i].skill_a # dreport.pairs[i].skill_b) =>
                 \E g \in 1..Len(dreport.merge_groups) :
                    /\ InSeq(dreport.pairs[i].skill_a, dreport.merge_groups[g])
                    /\ InSeq(dreport.pairs[i].skill_b, dreport.merge_groups[g])
        /\ dreport.merge_groups =
              build_merge_groups(SelectSeq(dreport.pairs, LAMBDA q : q.should_merge))

\* At threshold 0.7: a and b, recommended with score 0.2, form the one
\* group; b and c, not recommended with score 0.99, are not joined.
C16_Witness ==
    /\ Judged
    /\ dthreshold = 70
    /\ Len(dreport.pairs) = 3
    /\ dreport.pairs[1].should_merge /\ dreport.pairs[1].overlap_score = 20
    /\ ~dreport.pairs[3].should_merge /\ dreport.pairs[3].overlap_score = 99
    /\ dreport.pairs[3].skill_b = <<99>>
    /\ dreport.merge_groups = <<<<<<97>>, <<98>>>>>>

\* C17: a returned report is consistent: its groups are those the builder
\* gives for its pairs, every name of a group is an endpoint of one of its
\* should_merge=true pairs, and the summary counts the should_merge=true
\* pairs and all the pairs.
C17_ReportConsistent ==
    dpc \in {"returned", "shown"} =>
        /\ dreport.merge_groups = build_merge_groups(dreport.pairs)
        /\ \A g \in 1..Len(dreport.merge_groups) :
              \A k \in 1..Len(dreport.merge_groups[g]) :
                 \E i \in 1..Len(dreport.pairs) :
                    /\ dreport.pairs[i].should_merge = TRUE
                    /\ dreport.merge_groups[g][k] \in
                          {dreport.pairs[i].skill_a, dreport.pairs[i].skill_b}
        /\ dpc = "shown" =>
              /\ dshown[1].summary.recommended =
                    Cardinality({i \in 1..Len(dreport.pairs) :
                                    dreport.pairs[i].should_merge = TRUE})
              /\ dshown[1].summary.total = Len(dreport.pairs)

\* (a, b) true, (a, c) false, (b, c) true: one group [a, b, c], 2 of 3 pairs
\* recommended.
C17_Witness ==
    /\ dpc = "shown"
    /\ Len(dreport.pairs) = 3
    /\ dreport.pairs[1].should_merge
    /\ ~dreport.pairs[2].should_merge
    /\ dreport.pairs[3].should_merge
    /\ dreport.merge_groups = <<<<<<97>>, <<98>>, <<99>>>>>>
    /\ dshown[1].summary = [recommended |-> 2, total |-> 3]

\* the number of places of s that hold x
CountIn(s, x) == Cardinality({i \in 1..Len(s) : s[i] = x})

\* C18: the pairs of the report are the records of the payload, each at its
\* place; to_markdown gives one row per pair, by descending score, and after
\* it the pairs and the groups of the report are as they were.
C18_StoredOrderIsJudgeOrder ==
    Judged =>
        /\ Len(dreport.pairs) = Len(PayloadRecords)
        /\ \A i \in 1..Len(PayloadRecords) :
              \A f \in DOMAIN PayloadRecords[i] \cap
                       {"skill_a", "skill_b", "overlap_score", "should_merge", "reason"} :
                 dreport.pairs[i][f] = PayloadRecords[i][f]
        /\ dpc = "shown" =>
              LET rows == dshown[1].markdown.rows
                  shown == [i \in 1..Len(rows) |->
                              <<rows[i].skill_a, rows[i].skill_b, rows[i].overlap>>]
                  stored == [i \in 1..Len(dreport.pairs) |->
                               <<dreport.pairs[i].skill_a, dreport.pairs[i].skill_b,
                                 dreport.pairs[i].overlap_score>>]
              IN  /\ Len(rows) = Len(dreport.pairs)
                  /\ \A i \in 1..Len(rows) : CountIn(shown, shown[i]) = CountIn(stored, shown[i])
                  /\ \A i, j \in 1..Len(rows) :
                        i < j => rows[i].overlap >= rows[j].overlap
                  /\ dreport.merge_groups = build_merge_groups(dreport.pairs)

\* Scores 0.2, 0.99, 0.5 in the payload: shown as 0.99, 0.5, 0.2 and still
\* stored as 0.2, 0.99, 0.5.
C18_Witness ==
    /\ dpc = "shown"
    /\ Len(dreport.pairs) = 3
    /\ [i \in 1..3 |-> dreport.pairs[i].overlap_score] = <<20, 99, 50>>
    /\ [i \in 1..3 |-> dshown[1].markdown.rows[i].overlap] = <<99, 50, 20>>

---------------------------------------------------------------------------
(* More claims about _build_merge_groups.                                  *)

\* C19: a name is in a returned group if and only if it is an endpoint of a
\* should_merge=true pair of two different names; so a name that is only in
\* should_merge=false pairs or only paired with itself is in no group, and
\* a list without a should_merge=true pair gives no group.
C19_GroupedIffMergeEndpoint ==
    gpc = "done" =>
        /\ \A x \in Names :
              (\E g \in 1..Len(groups) : InSeq(x, groups[g]))
                 <=> (\E i \in 1..Len(pairs) :
                        /\ pairs[i].should_merge
                        /\ pairs[i].skill_a # pairs[i].skill_b
                        /\ x \in {pairs[i].skill_a, pairs[i].skill_b})
        /\ (\A i \in 1..Len(pairs) : ~pairs[i].should_merge) => groups = <<>>

\* c is recommended for a merge with itself, ab is only in a pair that is
\* not recommended, a and b are recommended: the one group is [a, b].
C19_Witness ==
    /\ gpc = "done"
    /\ HasPair(pairs, <<99>>, <<99>>, TRUE)
    /\ HasPair(pairs, <<97>>, <<97, 98>>, FALSE)
    /\ HasPair(pairs, <<97>>, <<98>>, TRUE)
    /\ groups = <<<<<<97>>, <<98>>>>>>

\* C20: two calls on the same pair list return the same groups, with the
\* same sorted members, which are the groups of that list alone whatever an
\* earlier call was run on, and the pair list is left as it was.
C20_RerunSameGroups ==
    rpc = "done" =>
        /\ Range(rruns[1]) = Range(rruns[2])
        /\ Len(rruns[1]) = Len(rruns[2])
        /\ Range(rruns[1]) = Range(build_merge_groups(rinput))
        /\ \A g \in 1..Len(rruns[2]) : rruns[2][g] = sorted(rruns[2][g])
        /\ rpairs = rinput

\* After a call that joined ab and c, two calls on the list (a, b), (b, c)
\* both gave the one group [a, b, c].
C20_Witness ==
    /\ rpc = "done"
    /\ Len(rother) = 1
    /\ rother[1].skill_a = <<97, 98>> /\ rother[1].skill_b = <<99>>
    /\ HasPair(rpairs, <<97>>, <<98>>, TRUE)
    /\ HasPair(rpairs, <<98>>, <<99>>, TRUE)
    /\ rruns = <<<<<<<<97>>, <<98>>, <<99>>>>>>, <<<<<<97>>, <<98>>, <<99>>>>>>>>

---------------------------------------------------------------------------
(* More claims about merge_skills.                                         *)

\* C21: no step of merge_skills changes skill_a or skill_b: their name,
\* description, body, metadata and source_paper are after the call what
\* they were before it, whether a skill or None is returned.
C21_InputsUnchanged ==
    [][skill_a' = skill_a /\ skill_b' = skill_b]_vars

\* A merge of two skills with metadata and a source paper succeeded, and the
\* result carries the combined metadata.
C21_Witness ==
    /\ mpc = "done"
    /\ mresult # <<>>
    /\ skill_a.metadata = [x |-> <<49>>]
    /\ skill_b.metadata = [x |-> <<50>>, y |-> <<50>>]
    /\ Truthy(skill_a.source_paper)
    /\ "merged-from" \in DOMAIN mresult[1].metadata
    /\ "merged-from" \notin DOMAIN skill_a.metadata

---------------------------------------------------------------------------
(* More claims about merge_into_existing.                                  *)

Successes ==
    LET ok == SelectSeq(icalls, LAMBDA c : c.merged # <<>>)
    IN  [k \in 1..Len(ok) |-> ok[k].merged[1]]

\* C23: on return every should_merge pair of the report with one name in
\* each set has had exactly one merge_skills call, the calls were made in
\* report order, and the merged skills returned are the results of all the
\* calls that gave a skill, those made after a call that gave none too.
C23_SoftFailureGoesOn ==
    ipc = "returned" =>
        /\ \A k \in 1..Len(ireport) :
              (ireport[k].should_merge /\ CrossSet(ireport[k])) =>
                 Len(CallsAt(k)) = 1
        /\ \A i, j \in 1..Len(icalls) : i < j => icalls[i].idx < icalls[j].idx
        /\ merged_results = Successes

\* The first of two qualifying pairs got no skill from its merge, the second
\* was merged all the same and its result is returned.
C23_Witness ==
    /\ ipc = "returned"
    /\ Len(icalls) = 2
    /\ icalls[1].idx = 1 /\ icalls[1].merged = <<>>
    /\ icalls[2].idx = 2 /\ icalls[2].merged # <<>>
    /\ merged_results = icalls[2].merged

\* C29: merge_into_existing is never left by the lookup of a pair's skills
\* (StopIteration of next()), whatever the lists and the report.
C29_LookupSucceeds == iexc # "StopIteration"

---------------------------------------------------------------------------
(* More claims about the auto-merge loop.                                  *)

\* the members of group g of the report that the directory held at the start
Resolved(g) == resolve_group(agroups[g], skills_by_name(askills))

\* C24: for a group of which fewer than 2 names are skills of the directory,
\* auto-merge makes no merge call, writes nothing and removes nothing; and
\* it goes on: at the end every group with 2 or more such names was written.
C24_SkipsUnresolvedGroup ==
    /\ \A g \in 1..Len(agroups) :
          Len(Resolved(g)) < 2 =>
             /\ \A k \in 1..Len(acalls) : acalls[k].g # g
             /\ \A k \in 1..Len(aops) : aops[k].g # g
    /\ apc = "done" =>
          \A g \in 1..Len(agroups) :
             Len(Resolved(g)) >= 2 =>
                \E k \in 1..Len(aops) : aops[k].g = g /\ aops[k].op = "write"

\* A first group with one resolved member was passed over and the second
\* group, which follows it, was merged and written.
C24_Witness ==
    /\ apc = "done"
    /\ Len(agroups) = 2
    /\ Len(Resolved(1)) = 1
    /\ Len(Resolved(2)) >= 2
    /\ \E k \in 1..Len(aops) : aops[k].g = 2 /\ aops[k].op = "write"
    /\ \E k \in 1..Len(acalls) : acalls[k].g = 2 /\ acalls[k].merged # <<>>

\* the source papers of the members of the group being merged
GroupPapers ==
    {group_skills[i].source_paper.v :
        i \in {j \in 1..Len(group_skills) : Truthy(group_skills[j].source_paper)}}

\* C27: when the fold over a group of 3 or more members has ended and every
\* step of it gave a skill, the "source-papers" of the replacement lists
\* the distinct non-empty source papers of all the members.
C27_ProvenanceAccumulates ==
    ( /\ apc = "write"
      /\ Len(group_skills) >= 3
      /\ \A k \in 1..Len(acalls) : acalls[k].g = gi => acalls[k].merged # <<>> )
    => /\ "source-papers" \in DOMAIN aresult[1].metadata
       /\ aresult[1].metadata["source-papers"] =
             Join(<<59, 32>>, SortSet(GroupPapers))

\* the replacement of a processed group g: the result of its last merge call
\* that gave a skill, or its first member when none did
ReplacementOf(g) ==
    LET ok == SelectSeq(CallsOf(g), LAMBDA c : c.merged # <<>>)
    IN  IF ok # <<>> THEN ok[Len(ok)].merged[1] ELSE CallsOf(g)[1].left

\* the groups that were written
WrittenGroups == {aops[k].g : k \in {j \in 1..Len(aops) : aops[j].op = "write"}}

\* C28: when auto-merge has processed all groups, the replacement of each
\* group is in the directory with the content written for it, whatever
\* names the merged skills were given; and a skill of the directory that is
\* in no group is never removed.
C28_ReplacementsKept ==
    /\ apc = "done" =>
          \A g \in WrittenGroups :
             LET r == ReplacementOf(g)
             IN  /\ r.name \in DOMAIN store
                 /\ store[r.name] = to_skill_md(r)
    /\ \A i \in 1..Len(askills) :
          (\A g \in 1..Len(agroups) : askills[i].name \notin Range(agroups[g]))
             => askills[i].name \in DOMAIN store

---------------------------------------------------------------------------
(* Claims about _cosine_similarity.                                        *)

\* every component of v is 0 (the empty vector too)
ZeroMagnitude(v) == \A i \in 1..Len(v) : v[i] = 0

\* C25: _cosine_similarity returns 0.0 when one of the vectors, or both,
\* has magnitude 0, and no call of it divides by zero.
C25_ZeroForZeroMagnitude ==
    cpc = "done" =>
        /\ cresult.exc # "ZeroDivisionError"
        /\ (ZeroMagnitude(cvec_a) \/ ZeroMagnitude(cvec_b)) =>
              /\ cresult.exc = "none"
              /\ cresult.sim.num = 0

\* The second vector is a zero vector, the first is not: 0.0 was returned.
C25_Witness ==
    /\ cpc = "done"
    /\ cvec_a = <<1, 2>>
    /\ cvec_b = <<0, 0>>
    /\ cresult.exc = "none"
    /\ cresult.sim.num = 0

\* C26: a call of _cosine_similarity with vectors of different lengths
\* ends with ValueError.
C26_LengthMismatchRaises ==
    (cpc = "done" /\ Len(cvec_a) # Len(cvec_b)) => cresult.exc = "ValueError"

---------------------------------------------------------------------------
(* Claims about CopilotProvider.chat.                                      *)

\* the positions of the completion requests in the log
Creates == {k \in 1..Len(plog) : plog[k].req = "create"}

\* what a call makes of its requests: at most 3 completion requests, each
\* on an attempt of its own; a completion request answered 401 is followed
\* at once by a token exchange; a call that has ended has a response or an
\* exception, and an exception when its third completion request failed
CopilotBounded ==
    /\ Cardinality(Creates) <= 3
    /\ \A j, k \in Creates : j < k => plog[j].attempt < plog[k].attempt
    /\ \A k \in Creates :
          plog[k].outcome = "401" =>
             /\ k < Len(plog)
             /\ plog[k + 1].req = "exchange"
    /\ ppc = "done" =>
          /\ presult # "none"
          /\ (Cardinality(Creates) = 3 /\ plog[Max(Creates)].outcome # "ok")
                => presult \notin {"none", "response"}

\* C30: a call of chat makes at most 3 completion requests, a rate limit,
\* a server error and a 401 each using up one attempt, the 401 followed by
\* a token exchange, and the call always ends, with a response or with an
\* exception.
C30_ChatTerminates == [](CopilotBounded) /\ <>(ppc = "done")

\* Three completion requests were answered 401, each followed by an
\* exchange, and the call ended with RuntimeError.
C30_Witness ==
    /\ ppc = "done"
    /\ presult = "RuntimeError"
    /\ Cardinality(Creates) = 3
    /\ \A k \in Creates : plog[k].outcome = "401"
    /\ Len(plog) = 7

===========================================================================
